---- MODULE Spec2Model ----
(***************************************************************************)
(* Model of the PyFrac propagation engine: Controller.run,                 *)
(* Controller.advance_time_step and the time-step attempt functions of     *)
(* the volume-control and viscous-fluid solvers.                           *)
(*                                                                         *)
(* Numbers are fixed point integers:                                       *)
(*   lengths      fortieths of the initial cell size (hx = 40 on mesh 0)   *)
(*   times        ticks                                                    *)
(*   prefactor    thousandths                                              *)
(*   fill         FillOne = 1.0 (1e-7 resolution)                          *)
(*   velocity     thousandths of a length unit per tick                    *)
(* Arrays indexed by cell are functions on Cells; EltTip and FillF are     *)
(* sequences (FillF[e] belongs to EltTip[e]).                              *)
(***************************************************************************)
EXTENDS Integers, Sequences, FiniteSets, TLC

\* ------------------------------------------------------------------ bounds
\* sim_prop.maxTimeSteps of the full-detail specification
MaxStepsDetail == 5
\* sim_prop.maxTimeSteps of the controller specification
MaxStepsRun == 7
\* remeshings allowed before the grid edge is no longer approached
MaxRemesh == 1

\* ------------------------------------------------- simulation parameters
maxReattempts == 2
maxFrontItr == 3
maxSolverItr == 3
\* reAttemptFactor = 0.8, in tenths
reAttemptFactor == 8
\* tmStpPrefactor = tmStpPrefactor_max = 0.15, in thousandths
tmStpPrefactor_max == 150
\* sim_prop.timeStep_limit at the start, in ticks
timeStep_limit_0 == 500
FinalTime == 3000
solTimeSeries == <<1000, FinalTime>>
\* tolFractFront = 1e-3, in fill units
tolFractFront == 10000
\* injection rate: Q * dt / EltArea is (Qin * dt) \div (hx * hy)
Qin == 1400

\* ------------------------------------------------------------- arithmetic
Min(a, b) == IF a < b THEN a ELSE b
Max(a, b) == IF a > b THEN a ELSE b
Abs(a) == IF a < 0 THEN -a ELSE a

RECURSIVE Pow(_, _)
Pow(b, e) == IF e <= 0 THEN 1 ELSE b * Pow(b, e - 1)

RECURSIVE SumSeq(_)
SumSeq(s) == IF s = <<>> THEN 0 ELSE Head(s) + SumSeq(Tail(s))

RECURSIVE SumOver(_, _)
SumOver(S, f) ==
    IF S = {} THEN 0
    ELSE LET x == CHOOSE y \in S : TRUE IN f[x] + SumOver(S \ {x}, f)

\* the elements of a set of numbers in ascending order (np.where order)
RECURSIVE SortedSeq(_)
SortedSeq(S) ==
    IF S = {} THEN <<>>
    ELSE LET m == CHOOSE x \in S : \A y \in S : x <= y
         IN <<m>> \o SortedSeq(S \ {m})

Range(s) == {s[n] : n \in 1..Len(s)}

\* ------------------------------------------------------------------- mesh
nx == 5
ny == 5
NumberOfElts == nx * ny
Cells == 0..(NumberOfElts - 1)

\* Utility.Neighbors: <<left, right, bottom, up>>; a boundary element is its
\* own neighbour in the direction of the boundary
Neighbors(elem) ==
    LET j == elem \div nx
        i == elem % nx
    IN << IF i = 0 THEN elem ELSE j * nx + i - 1,
          IF i = nx - 1 THEN elem ELSE j * nx + i + 1,
          IF j = 0 THEN elem ELSE (j - 1) * nx + i,
          IF j = ny - 1 THEN elem ELSE (j + 1) * nx + i >>

NeiElements == [c \in Cells |-> Neighbors(c)]

CenterElts == (ny \div 2) * nx + (nx \div 2)

\* grid spacing of the mesh after `mesh` remeshings by factor 2
hx(mesh) == 40 * Pow(2, mesh)
EltArea(mesh) == hx(mesh) * hx(mesh)

\* distance of a cell from the centre cell, in cells (square footprint)
ring(c) == Max(Abs((c % nx) - (nx \div 2)), Abs((c \div nx) - (ny \div 2)))
RingCells(r) == {c \in Cells : ring(c) = r}

\* ------------------------------------------------------- elasticity matrix
\* C on mesh 0: self influence on the diagonal, decaying negative influence
\* off the diagonal
C0 ==
    [a \in Cells, b \in Cells |->
        IF a = b THEN 4096
        ELSE LET dx == (a % nx) - (b % nx)
                 dy == (a \div nx) - (b \div nx)
             IN -(8 * (64 \div (dx * dx + dy * dy)))]

\* C *= 1/2.
HalveNone(M) == M
Halve(M) == [a \in Cells, b \in Cells |-> M[a, b] \div 2]

\* C[np.ix_(elts, elts)]: a copy of the entries of the given rows and columns
SubMatrix(M, elts) == [a \in elts, b \in elts |-> M[a, b]]

\* C[np.ix_(elts, elts)] = saved
RestoreSkip(M, saved) == M
RestoreSubMatrix(M, saved) ==
    [a \in Cells, b \in Cells |->
        IF <<a, b>> \in DOMAIN saved THEN saved[a, b] ELSE M[a, b]]

FillOne == 10000000

\* the factor (1 + ac * pi / 4) of the tip correction, in thousandths:
\* r = FillF - .25, at least 0.1; ac = (1 - r) / r
TipCorrectionFactor(fill) ==
    LET r0 == fill - FillOne \div 4
        r == IF r0 < FillOne \div 10 THEN FillOne \div 10 ELSE r0
        ac == (FillOne - r) \div (r \div 1000)
    IN 1000 + (ac * 785) \div 1000

\* the loop over the tip elements: C[e, e] *= (1 + ac * pi / 4)
ApplyTipCorrection(M, EltTip, FillF) ==
    [a \in Cells, b \in Cells |->
        IF a = b /\ a \in Range(EltTip)
        THEN LET e == CHOOSE n \in 1..Len(EltTip) : EltTip[n] = a
             IN (M[a, b] * TipCorrectionFactor(FillF[e])) \div 1000
        ELSE M[a, b]]

\* --------------------------------------------------------------- fracture
None == [isNone |-> TRUE]

\* the level set of a front at distance R from the centre: SolveFMM started
\* from a ribbon cell whose distance to the front is R
LevelSet(R, mesh) == [c \in Cells |-> ring(c) * hx(mesh) - R]
FrontRadius(sgndDist) == -sgndDist[CenterElts]

\* reconstruct_front: the cells the front passes through
TipRing(R, mesh) == (R + hx(mesh) \div 2) \div hx(mesh)
reconstruct_front(sgndDist, mesh) ==
    SortedSeq(RingCells(TipRing(FrontRadius(sgndDist), mesh)))

\* Integral_over_cell(..., 'A') / EltArea: the filled fraction of a tip cell
FillFraction(R, mesh) ==
    ((R - (TipRing(R, mesh) * hx(mesh) - hx(mesh) \div 2)) * FillOne)
        \div hx(mesh)

\* Integral_over_cell(..., tipAsymptote) / EltArea: the average width of a
\* tip cell with the given filled fraction
TipWidth(fill) == ((fill \div 1000) * 200) \div (FillOne \div 1000)

\* UpdateLists: channel, tip, crack and ribbon of a front in ring F
UpdateLists(EltsTipNew) ==
    LET F == ring(EltsTipNew[1])
        ch == {c \in Cells : ring(c) < F}
    IN [EltChannel |-> ch,
        EltTip |-> EltsTipNew,
        EltCrack |-> ch \cup Range(EltsTipNew),
        EltRibbon |-> {c \in ch : ring(c) = F - 1}]

\* Fracture.__init__: a fracture of front radius R at time zero
InitFracture(R) ==
    LET tip == reconstruct_front(LevelSet(R, 0), 0)
        fill == FillFraction(R, 0)
        lists == UpdateLists(tip)
    IN [time |-> 0,
        mesh |-> 0,
        w |-> [c \in Cells |-> IF c \in lists.EltChannel THEN 400
                               ELSE IF c \in Range(tip) THEN TipWidth(fill)
                               ELSE 0],
        p |-> [c \in Cells |-> 0],
        sgndDist |-> LevelSet(R, 0),
        FillF |-> [n \in 1..Len(tip) |-> fill],
        EltChannel |-> lists.EltChannel,
        EltTip |-> tip,
        EltCrack |-> lists.EltCrack,
        EltRibbon |-> lists.EltRibbon,
        v |-> [n \in 1..Len(tip) |-> 20]]

\* Fracture.remesh(factor = 2): the same front on a mesh of twice the cell
\* size, the width remapped so that the volume is kept
remesh(Fr) ==
    LET R == FrontRadius(Fr.sgndDist)
        m == Fr.mesh + 1
        tip == reconstruct_front(LevelSet(R, m), m)
        fill == FillFraction(R, m)
        lists == UpdateLists(tip)
        vol == SumOver(Fr.EltCrack, Fr.w) \div 4
        rest == vol - Len(tip) * TipWidth(fill)
    IN [time |-> Fr.time,
        mesh |-> m,
        w |-> [c \in Cells |->
                  IF c \in lists.EltChannel
                  THEN Max(rest, 0) \div Cardinality(lists.EltChannel)
                  ELSE IF c \in Range(tip) THEN TipWidth(fill)
                  ELSE 0],
        p |-> [c \in Cells |-> 0],
        sgndDist |-> LevelSet(R, m),
        FillF |-> [n \in 1..Len(tip) |-> fill],
        EltChannel |-> lists.EltChannel,
        EltTip |-> tip,
        EltCrack |-> lists.EltCrack,
        EltRibbon |-> lists.EltRibbon,
        v |-> Fr.v]

\* np.max(Fr.v)
MaxOfSeq(s) == CHOOSE x \in Range(s) : \A y \in Range(s) : x >= y

\* the value of a float division by zero
Infinity == 1000000000
\* the value of 0/0 and of every operation on it
NaN == 0 - 2000000000
HasNaN(s) == \E n \in DOMAIN s : s[n] = NaN
\* a / b in floating point, scaled by 1000: no exception is raised for b = 0
Quotient(a, b) ==
    IF b = 0 THEN (IF a = 0 THEN NaN ELSE IF a > 0 THEN Infinity ELSE -Infinity)
    ELSE (a * 1000) \div b

\* -------------------------------------------------------------------- state
VARIABLES
    pc,              \* position of the program
    cfg,             \* sim_prop: front advancing scheme, toughness function,
                     \* maxTimeSteps
    i,               \* time step counter of Controller.run
    Fr,              \* the fracture run continues from (Frac in the callees)
    fr_queue,        \* Controller.fr_queue, slots 0..4
    C,               \* Controller.C, shared with every callee
    smallStep_cnt,
    tmStpPrefactor,
    timeStep_limit,
    tmSrs_indx,
    next_in_tmSrs,
    status,          \* status returned by advance_time_step
    Fr_n_pls1,       \* fracture returned by advance_time_step
    loc,             \* local variables of advance_time_step and its callees
    exc,             \* exception that ended the process, "none" otherwise
    fr_stamp,        \* history: the step at which each slot was written
    accepted,        \* history: the accepted steps and their fractures
    ev               \* history: what the last pass of the run loop did

vars == <<pc, cfg, i, Fr, fr_queue, C, smallStep_cnt, tmStpPrefactor,
          timeStep_limit, tmSrs_indx, next_in_tmSrs, status, Fr_n_pls1, loc,
          exc, fr_stamp, accepted, ev>>

ctrl == <<i, fr_queue, smallStep_cnt, tmStpPrefactor, tmSrs_indx,
          next_in_tmSrs, status, Fr_n_pls1, fr_stamp, accepted, ev>>

\* sim_parameters.maxToughnessItr
maxToughnessItr == cfg.maxToughnessItr

\* the solvers of src and, for volume control, frontAdvancing 'implicit',
\* 'semi-implicit' and 'explicit'
Modes == {"viscous", "vc_implicit", "vc_semi", "vc_explicit"}

\* the first position of the attempt function of a mode; advance_time_step
\* calls attempt_time_step_mechLoading when dryCrack_mechLoading is set
AttemptEntry(mode) ==
    CASE mode = "viscous" -> "vf_same"
      [] mode = "vc_implicit" -> "vc_same"
      [] mode \in {"vc_semi", "vc_explicit"} -> "ex_front"
      [] mode = "mechLoading" -> "ml_attempt"

\* locals that are not live
NoLoc ==
    [TimeStep |-> 0, att |-> 0, dt |-> 0, exitstatus |-> 0, Fr_k |-> None,
     k |-> 0, itr |-> 0, w_k |-> <<>>, fill_frac_last |-> <<>>,
     sgndDist_k |-> <<>>, EltsTipNew |-> <<>>, FillFrac_k |-> <<>>,
     wTip |-> <<>>, C_EltTip |-> <<>>, Fr_kplus1 |-> None, Frac_in |-> None,
     cap |-> "none"]

NoEvent == [kind |-> "none"]

\* the initial radii of the fracture handed to the controller
InitRadii == {24, 48}

\* Material_properties.anisotropic is drawn where the flow of control reads
\* it, in the toughness loop of the explicit step; maxToughnessItr is 2, and
\* also 1 and 3 where the toughness loop counts from 1, in the front loop of
\* volume control: no pass with 1, and a second pass, the first that can meet
\* the tolerance, with 3
\* entry "run": Controller.run is called; entry "attempt": the attempt
\* function of the mode is called by itself, with PerfNode left at None and
\* with a time step of the first pass of a run: the step of the velocity, its
\* reattempt, or the step to a first target that is the time of the start
InitWith(modes, toughness, radii, steps, finals, series, prefactors, entry) ==
    /\ cfg \in {c \in [mode : modes, K1cFunc : toughness,
                        anisotropic : BOOLEAN, maxToughnessItr : {1, 2, 3},
                        maxTimeSteps : {steps},
                        FinalTime : finals, solTimeSeries : series,
                        tmStpPrefactor_max : prefactors, entry : {entry}] :
                    /\ c.anisotropic => c.mode = "vc_explicit"
                    /\ c.maxToughnessItr # 2 =>
                            c.mode \in {"vc_implicit", "vc_semi"}
                                /\ c.entry = "attempt"
                    /\ c.maxToughnessItr = 3 => c.K1cFunc}
    /\ pc = IF entry = "run" THEN "run" ELSE AttemptEntry(cfg.mode)
    /\ i = 0
    /\ Fr \in {InitFracture(R) : R \in radii}
    /\ loc \in IF entry = "run" THEN {NoLoc}
               ELSE {[NoLoc EXCEPT !.TimeStep = d, !.dt = d, !.Frac_in = Fr] :
                        d \in {300, 240, 0}}
    /\ fr_queue = [n \in 0..4 |-> None]
    /\ C = C0
    /\ smallStep_cnt = 0
    /\ tmStpPrefactor = cfg.tmStpPrefactor_max
    /\ timeStep_limit = timeStep_limit_0
    /\ tmSrs_indx = 0
    /\ next_in_tmSrs = cfg.solTimeSeries[1]
    /\ status = 0
    /\ Fr_n_pls1 = None
    /\ exc = "none"
    /\ fr_stamp = [n \in 0..4 |-> -1]
    /\ accepted = {}
    /\ ev = NoEvent

\* the attempt functions of src are also entered with a front one step from
\* the edge of the grid
Init ==
    \/ InitWith({"mechLoading"}, BOOLEAN, InitRadii,
                MaxStepsDetail, {FinalTime}, {solTimeSeries},
                {tmStpPrefactor_max}, "run")
    \/ InitWith(Modes, BOOLEAN, InitRadii \cup {56}, MaxStepsDetail,
                {FinalTime}, {solTimeSeries}, {tmStpPrefactor_max}, "run")
    \/ InitWith({"vc_implicit", "vc_semi", "vc_explicit"}, BOOLEAN,
                InitRadii \cup {56}, MaxStepsDetail, {FinalTime},
                {solTimeSeries}, {tmStpPrefactor_max}, "attempt")

\* ----------------------------------------------------------- Controller.run
\* while (Fr.time < FinalTime) and (i < maxTimeSteps)
\* a comparison with NaN is False
LoopConditionTimeOnly == Fr.time # NaN /\ Fr.time < cfg.FinalTime
LoopCondition ==
    Fr.time # NaN /\ Fr.time < cfg.FinalTime /\ i < cfg.maxTimeSteps

\* the head of the time stepping loop up to the call of advance_time_step
TimeStepOf(prefactor, Frac) ==
    LET vmax == MaxOfSeq(Frac.v)
    IN IF HasNaN(Frac.v) THEN NaN
       ELSE IF vmax = 0 THEN Infinity
       ELSE (prefactor * Min(hx(Frac.mesh), hx(Frac.mesh))) \div vmax

RunStep ==
    /\ pc = "run"
    /\ LoopCondition
    /\ LET TimeStep == TimeStepOf(tmStpPrefactor, Fr)
           shorten == TimeStep # NaN /\ Fr.time + TimeStep > next_in_tmSrs
           indx == IF shorten /\ tmSrs_indx < Len(cfg.solTimeSeries) - 1
                   THEN tmSrs_indx + 1 ELSE tmSrs_indx
       IN /\ tmSrs_indx' = indx
          /\ next_in_tmSrs' = IF shorten THEN cfg.solTimeSeries[indx + 1]
                              ELSE next_in_tmSrs
          /\ loc' = [NoLoc EXCEPT
                        !.TimeStep = IF shorten THEN next_in_tmSrs - Fr.time
                                     ELSE TimeStep]
    /\ pc' = "advance"
    /\ UNCHANGED <<cfg, i, Fr, fr_queue, C, smallStep_cnt, tmStpPrefactor,
                   timeStep_limit, status, Fr_n_pls1, exc, fr_stamp,
                   accepted, ev>>

RunFinished ==
    /\ pc = "run"
    /\ ~LoopCondition
    /\ pc' = "finished"
    /\ UNCHANGED <<cfg, i, Fr, fr_queue, C, smallStep_cnt, tmStpPrefactor,
                   timeStep_limit, tmSrs_indx, next_in_tmSrs, status,
                   Fr_n_pls1, loc, exc, fr_stamp, accepted, ev>>

\* the stamps of the slots that hold a fracture
HeldStamps == {fr_stamp[n] : n \in {m \in 0..4 : fr_queue[m] # None}}

\* status == 1
RunAccept ==
    /\ pc = "handle" /\ status = 1
    /\ Fr' = Fr_n_pls1
    /\ fr_queue' = [fr_queue EXCEPT ![i % 5] = Fr_n_pls1]
    /\ fr_stamp' = [fr_stamp EXCEPT ![i % 5] = i]
    /\ accepted' = accepted \cup {[step |-> i, state |-> Fr_n_pls1]}
    /\ smallStep_cnt' = smallStep_cnt + 1
    /\ tmStpPrefactor' = IF (smallStep_cnt + 1) % 4 = 0
                         THEN cfg.tmStpPrefactor_max ELSE tmStpPrefactor
    /\ ev' = [kind |-> "accept"]
    /\ i' = i + 1
    /\ status' = 0 /\ Fr_n_pls1' = None
    /\ pc' = "run"
    /\ UNCHANGED <<cfg, C, timeStep_limit, tmSrs_indx, next_in_tmSrs, loc, exc>>

\* status == 12
RunRemesh ==
    /\ pc = "handle" /\ status = 12
    /\ C' = Halve(C)
    /\ Fr' = remesh(Fr)
    /\ ev' = [kind |-> "remesh", C_before |-> C, Fr_before |-> Fr,
              prefactor_before |-> tmStpPrefactor]
    /\ i' = i + 1
    /\ status' = 0 /\ Fr_n_pls1' = None
    /\ pc' = "run"
    /\ UNCHANGED <<cfg, fr_queue, smallStep_cnt, tmStpPrefactor,
                   timeStep_limit, tmSrs_indx, next_in_tmSrs, loc, exc,
                   fr_stamp, accepted>>

\* any other status: restart from a check point
ReducedPrefactor(prefactor) == (prefactor * 8) \div 10

RunRollback ==
    /\ pc = "handle" /\ status \notin {1, 12}
    /\ tmStpPrefactor' = ReducedPrefactor(tmStpPrefactor)
    /\ smallStep_cnt' = 0
    /\ ~(fr_queue[(i + 1) % 5] = None \/ tmStpPrefactor' < 100)
    /\ Fr' = fr_queue[(i + 1) % 5]
    /\ ev' = [kind |-> "rollback", stamp |-> fr_stamp[(i + 1) % 5],
              held |-> HeldStamps]
    /\ i' = i + 1
    /\ status' = 0 /\ Fr_n_pls1' = None
    /\ pc' = "run"
    /\ UNCHANGED <<cfg, fr_queue, C, timeStep_limit, tmSrs_indx,
                   next_in_tmSrs, loc, exc, fr_stamp, accepted>>

RunFail ==
    /\ pc = "handle" /\ status \notin {1, 12}
    /\ tmStpPrefactor' = ReducedPrefactor(tmStpPrefactor)
    /\ smallStep_cnt' = 0
    /\ fr_queue[(i + 1) % 5] = None \/ tmStpPrefactor' < 100
    /\ ev' = [kind |-> "exit", held |-> HeldStamps,
              prefactor |-> tmStpPrefactor']
    /\ exc' = "SystemExit"
    /\ pc' = "raised"
    /\ UNCHANGED <<cfg, i, Fr, fr_queue, C, timeStep_limit, tmSrs_indx,
                   next_in_tmSrs, status, Fr_n_pls1, loc, fr_stamp, accepted>>

\* --------------------------------------------- Controller.advance_time_step
\* the limit on the time step and the negative time step
AdvanceEnter ==
    /\ pc = "advance"
    /\ LET over == loc.TimeStep # NaN /\ loc.TimeStep > timeStep_limit
           T1 == IF over THEN timeStep_limit ELSE loc.TimeStep
           limit == IF over THEN (T1 * 18) \div 10 ELSE timeStep_limit
           T2 == IF T1 # NaN /\ T1 < 0 THEN limit * 2 ELSE T1
       IN /\ timeStep_limit' = limit
          /\ loc' = [loc EXCEPT !.TimeStep = T2, !.att = 0]
    /\ pc' = "reattempt"
    /\ UNCHANGED <<cfg, Fr, C, exc>> /\ UNCHANGED ctrl

\* the time step of reattempt number att
smallerTimeStep(TimeStep, att) ==
    IF TimeStep = NaN THEN NaN
    ELSE IF 2 * att > maxReattempts - 2
    THEN LET e == att + 1 - maxReattempts \div 2
         IN (TimeStep * Pow(10, e)) \div Pow(reAttemptFactor, e)
    ELSE (TimeStep * Pow(reAttemptFactor, att)) \div Pow(10, att)

\* the head of the reattempt loop: the call of the attempt function
Reattempt ==
    /\ pc = "reattempt"
    /\ loc.att < maxReattempts
    /\ loc' = [NoLoc EXCEPT !.TimeStep = loc.TimeStep, !.att = loc.att,
                            !.dt = smallerTimeStep(loc.TimeStep, loc.att),
                            !.Frac_in = Fr]
    /\ pc' = AttemptEntry(cfg.mode)
    /\ UNCHANGED <<cfg, Fr, C, timeStep_limit, exc>> /\ UNCHANGED ctrl

\* the attempt has returned: status 1 and status 12 are returned at once,
\* any other status starts the next reattempt
AttemptReturned ==
    /\ pc = "attempt_done"
    /\ cfg.entry = "run"
    /\ IF loc.exitstatus \in {1, 12}
       THEN /\ status' = loc.exitstatus
            /\ Fr_n_pls1' = loc.Fr_k
            /\ loc' = NoLoc
            /\ pc' = "handle"
       ELSE /\ loc' = [NoLoc EXCEPT !.TimeStep = loc.TimeStep,
                                    !.att = loc.att + 1,
                                    !.exitstatus = loc.exitstatus,
                                    !.Fr_k = loc.Fr_k]
            /\ pc' = "reattempt"
            /\ UNCHANGED <<status, Fr_n_pls1>>
    /\ UNCHANGED <<cfg, i, Fr, fr_queue, C, smallStep_cnt, tmStpPrefactor,
                   timeStep_limit, tmSrs_indx, next_in_tmSrs, exc, fr_stamp,
                   accepted, ev>>

\* the reattempts are used up: the status and the fracture of the last
\* attempt are returned
ReattemptsExhausted ==
    /\ pc = "reattempt"
    /\ loc.att >= maxReattempts
    /\ status' = loc.exitstatus
    /\ Fr_n_pls1' = loc.Fr_k
    /\ loc' = NoLoc
    /\ pc' = "handle"
    /\ UNCHANGED <<cfg, i, Fr, fr_queue, C, smallStep_cnt, tmStpPrefactor,
                   timeStep_limit, tmSrs_indx, next_in_tmSrs, exc, fr_stamp,
                   accepted, ev>>

\* an attempt function that hands back the fracture it was given when it
\* fails
ReturnedWithInput(st, fr) ==
    [NoLoc EXCEPT !.TimeStep = loc.TimeStep, !.att = loc.att,
                  !.dt = loc.dt, !.Frac_in = loc.Frac_in,
                  !.itr = loc.itr, !.k = loc.k, !.cap = loc.cap,
                  !.exitstatus = st,
                  !.Fr_k = IF st = 1 THEN fr ELSE loc.Frac_in]

\* return exitstatus, fracture from an attempt function
Returned(st, fr) ==
    [NoLoc EXCEPT !.TimeStep = loc.TimeStep, !.att = loc.att,
                  !.dt = loc.dt, !.Frac_in = loc.Frac_in,
                  !.itr = loc.itr, !.k = loc.k, !.cap = loc.cap,
                  !.exitstatus = st, !.Fr_k = fr]

Return(st, fr) ==
    /\ loc' = Returned(st, fr)
    /\ pc' = "attempt_done"
    /\ exc' = exc

\* attempt_time_step_volumeControl when the explicit step or the same
\* footprint solve has returned: unless PerfNode is None it goes on with
\* PerfNode.iterations += 1, and the PerfNode advance_time_step passes is
\* Frac.mesh, a CartesianMesh, which has no attribute iterations
PerfNodeUpdate(locals, next) ==
    /\ loc' = locals
    /\ pc' = IF cfg.entry = "attempt" THEN next ELSE "raised"
    /\ exc' = IF cfg.entry = "attempt" THEN exc ELSE "AttributeError"

\* ------------------------------------------------ pieces of a time step
\* (s < 0).any(): a comparison with NaN is False
AnyNegative(s) == \E n \in DOMAIN s : s[n] # NaN /\ s[n] < 0

\* the search of FindBracket_dist: the residuals have the same sign until
\* the lower end has been moved `need` times
BracketCap == 30
RECURSIVE FindBracket_dist(_, _)
FindBracket_dist(need, cnt) ==
    IF need > cnt
    THEN IF cnt + 1 >= BracketCap THEN "SystemExit"
         ELSE FindBracket_dist(need, cnt + 1)
    ELSE "found"

\* the propagation speed given by the tip asymptote
FrontSpeed == 20
BracketNeeds == {0, 3, BracketCap}
RootOutcomes == {"root", "RuntimeError"}

\* TipAsymInversion: the distance of the ribbon cell from the front
TipAsymInversion(Frac, dt, need, root, wiggle) ==
    IF FindBracket_dist(need, 0) = "SystemExit" THEN [raised |-> TRUE]
    ELSE [raised |-> FALSE,
          dist |-> IF root = "RuntimeError" THEN NaN
                   ELSE FrontRadius(Frac.sgndDist)
                            + (dt * FrontSpeed) \div 1000 + wiggle]

\* a tip cell with a neighbour outside the grid (its own index in NeiElements)
ReachedEndOfGrid(EltsTipNew) ==
    \E n \in 1..Len(EltsTipNew) :
        \E d \in 1..4 : NeiElements[EltsTipNew[n]][d] = EltsTipNew[n]

\* the filling fractions as evaluated, then rounded to 1 below 1 + 1e-4
FillErrors == {0, FillOne}
\* 1e-4 in the two volume control solvers, 1e-6 in the viscous fluid solver
ClampTolerance(mode) ==
    IF mode = "viscous" THEN FillOne \div 1000000 ELSE FillOne \div 10000
ClampFill(f, tol) == IF f > FillOne /\ f < FillOne + tol THEN FillOne ELSE f
FillFrac(sgndDist, mesh, EltsTipNew, err, tol) ==
    [n \in 1..Len(EltsTipNew) |->
        ClampFill(FillFraction(FrontRadius(sgndDist), mesh) + err, tol)]
\* np.finfo(float).eps, the step from 1.0 to the next number: a filling
\* fraction is kept in steps of 1 / FillOne
eps == 1
\* (FillFrac_k > 1.0).any() or (FillFrac_k < 0.0 - np.finfo(float).eps).any()
FillInvalid(FillFrac_k) ==
    \E n \in DOMAIN FillFrac_k :
        FillFrac_k[n] > FillOne \/ FillFrac_k[n] < 0 - eps

\* the tip widths as evaluated
TipWidthErrors == {0, -1000, 1000, NaN}
TipWidths(FillFrac_k, err) ==
    [n \in DOMAIN FillFrac_k |->
        IF err = NaN THEN NaN ELSE TipWidth(FillFrac_k[n]) + err]

\* MakeEquationSystem_volumeControl_extendedFP followed by np.linalg.solve for
\* a channel of one cell: A = [[Ccc, -1], [1, 0]],
\* S = [-Ccc w_c - Cct wTip, Q dt / A - (sum(wTip) - sum(w[EltTip]))]
SolveExtendedFP(w, wTip, EltChannel, EltsTipNew, M, dt, mesh) ==
    IF HasNaN(wTip) THEN [dw |-> NaN, p |-> NaN]
    ELSE LET c == CHOOSE x \in EltChannel : TRUE
             S2 == (Qin * dt) \div EltArea(mesh)
                     - (SumSeq(wTip) - SumOver(Range(EltsTipNew), w))
             Cct_wTip == SumSeq([n \in 1..Len(wTip) |->
                                    M[c, EltsTipNew[n]] * wTip[n]])
             S1 == -(M[c, c] * w[c]) - Cct_wTip
         IN [dw |-> S2, p |-> M[c, c] * S2 - S1]

\* Fr_kplus1 = copy.deepcopy(Fr_lstTmStp) and the assignments to Fr_kplus1:
\* the fracture passed in and the new fracture afterwards
AssignToAlias(Fr_lstTmStp, new) == [Fr_lstTmStp |-> new, Fr_kplus1 |-> new]
AssignToCopy(Fr_lstTmStp, new) ==
    [Fr_lstTmStp |-> Fr_lstTmStp, Fr_kplus1 |-> new]

\* Fr_kplus1.time, Fr_kplus1.w after the solve
AdvancedWidth(Frac, dw, EltsTipNew, wTip) ==
    [c \in Cells |->
        IF c \in Range(EltsTipNew)
        THEN wTip[CHOOSE n \in 1..Len(EltsTipNew) : EltsTipNew[n] = c]
        ELSE IF c \in Frac.EltChannel
             THEN (IF dw = NaN THEN NaN ELSE Frac.w[c] + dw)
             ELSE Frac.w[c]]
WidthHasNaN(w) == \E c \in Cells : w[c] = NaN
\* the test for a negative width left out
WidthNegativeIgnored(w) == FALSE
WidthNegative(w) == \E c \in Cells : w[c] # NaN /\ w[c] < 0

\* ------------------------------- time_step_explicit_front_volumeControl
\* the level set from the last velocity, the new front, the check of the grid
\* boundary and the filling fractions
ExplicitFront ==
    /\ pc = "ex_front"
    /\ \E frontOk \in BOOLEAN, ferr \in FillErrors :
        LET t1 == Fr.EltTip[1]
            tipDist == Fr.sgndDist[t1] - (loc.dt * Fr.v[1]) \div 1000
            sgndDist_k == LevelSet(ring(t1) * hx(Fr.mesh) - tipDist, Fr.mesh)
            EltsTipNew == reconstruct_front(sgndDist_k, Fr.mesh)
            FillFrac_k == FillFrac(sgndDist_k, Fr.mesh, EltsTipNew, ferr,
                                   ClampTolerance(cfg.mode))
        IN IF ~frontOk THEN PerfNodeUpdate(Returned(3, None), "attempt_done")
           ELSE IF ReachedEndOfGrid(EltsTipNew)
           THEN /\ Fr.mesh < MaxRemesh
                /\ PerfNodeUpdate([Returned(12, None) EXCEPT
                                      !.EltsTipNew = EltsTipNew],
                                  "attempt_done")
           ELSE IF FillInvalid(FillFrac_k)
           THEN PerfNodeUpdate(Returned(9, None), "attempt_done")
           ELSE /\ loc' = [loc EXCEPT !.sgndDist_k = sgndDist_k,
                                      !.EltsTipNew = EltsTipNew,
                                      !.FillFrac_k = FillFrac_k]
                /\ pc' = "ex_tip"
                /\ exc' = exc
    /\ UNCHANGED <<cfg, Fr, C, timeStep_limit>> /\ UNCHANGED ctrl

\* p[EltCrack] = np.dot(C[EltCrack, EltCrack], w[EltCrack])
PressureFromWidth(M, crack, w) ==
    [c \in Cells |->
        IF c \in crack
        THEN SumOver(crack, [b \in crack |-> M[c, b] * w[b]]) \div 1000
        ELSE 0]

\* the tip volume, the linear system, its solution and the new fracture;
\* unless frontAdvancing is 'explicit' the step ends here with Fr_kplus1.v =
\* None, and attempt_time_step_volumeControl takes the width of the fracture
\* returned as w_k and starts its front loop from Frac
ExplicitSolve ==
    /\ pc = "ex_tip"
    /\ \E werr \in TipWidthErrors, KIPrimeNaN \in BOOLEAN :
        LET stagnant == FrontRadius(loc.sgndDist_k) = FrontRadius(Fr.sgndDist)
            wTip == TipWidths(loc.FillFrac_k, werr)
            sol == SolveExtendedFP(Fr.w, wTip, Fr.EltChannel, loc.EltsTipNew,
                                   C, loc.dt, Fr.mesh)
            lists == UpdateLists(loc.EltsTipNew)
            moved == [Fr EXCEPT !.time = @ + loc.dt,
                                !.w = AdvancedWidth(Fr, sol.dw,
                                                    loc.EltsTipNew, wTip)]
            full == [moved EXCEPT !.FillF = loc.FillFrac_k,
                                  !.EltChannel = lists.EltChannel,
                                  !.EltTip = lists.EltTip,
                                  !.EltCrack = lists.EltCrack,
                                  !.EltRibbon = lists.EltRibbon,
                                  !.p = PressureFromWidth(C, lists.EltCrack,
                                                          moved.w)]
        IN IF stagnant /\ KIPrimeNaN
           THEN /\ PerfNodeUpdate(Returned(8, None), "attempt_done")
                /\ Fr' = Fr
           ELSE IF AnyNegative(wTip) \/ (~HasNaN(wTip) /\ SumSeq(wTip) = 0)
           THEN /\ PerfNodeUpdate(Returned(4, None), "attempt_done")
                /\ Fr' = Fr
           ELSE IF WidthHasNaN(moved.w) \/ WidthNegative(moved.w)
           THEN /\ PerfNodeUpdate(Returned(5, None), "attempt_done")
                /\ Fr' = AssignToCopy(Fr, moved).Fr_lstTmStp
           ELSE IF cfg.mode = "vc_explicit"
           THEN /\ Fr' = AssignToCopy(Fr, full).Fr_lstTmStp
                /\ loc' = [loc EXCEPT
                              !.wTip = wTip,
                              !.Fr_kplus1 = AssignToCopy(Fr, full).Fr_kplus1,
                              !.itr = 0]
                /\ pc' = "ex_tough"
                /\ exc' = exc
           ELSE /\ Fr' = AssignToCopy(Fr, full).Fr_lstTmStp
                /\ PerfNodeUpdate(
                       [loc EXCEPT
                           !.w_k = AssignToCopy(Fr, full).Fr_kplus1.w,
                           !.k = 1, !.itr = 1, !.fill_frac_last = Fr.FillF,
                           !.sgndDist_k = Fr.sgndDist, !.EltsTipNew = <<>>,
                           !.FillFrac_k = <<>>],
                       "vc_ext_tough")
    /\ UNCHANGED <<cfg, C, timeStep_limit>> /\ UNCHANGED ctrl

\* the end of the explicit step: the velocity and the level set of the new
\* fracture
ExplicitFinish(sgndDist_k) ==
    LET new == [loc.Fr_kplus1 EXCEPT
                   !.v = [n \in 1..Len(loc.Fr_kplus1.EltTip) |->
                             Quotient(FrontRadius(sgndDist_k)
                                        - FrontRadius(loc.Frac_in.sgndDist),
                                      loc.dt)],
                   !.sgndDist = sgndDist_k]
    IN PerfNodeUpdate(Returned(1, new), "attempt_done")

\* one pass of the toughness loop of the explicit step: it is left after the
\* first pass unless the material is anisotropic; the norm is that of
\* 1 - abs(Kprime_k / Kprime_km1), where Kprime_km1 is assigned only with a
\* K1cFunc and is 0 in the first pass, so that the norm is inf or nan then.
\* With a K1cFunc the projection from the ribbon is taken once before the
\* loop and again, from the same level set, in the first pass: it gives the
\* angles, or np.nan in place of the array (no front polygon), or angles or
\* a toughness with a nan entry. Before the loop np.nan is indexed by
\* get_toughness_from_cellCenter unless the material is anisotropic
\* (TypeError), and no value is tested; in a pass a nan ends the step with
\* status 11
ExplicitToughness ==
    /\ pc = "ex_tough"
    /\ loc.itr < maxToughnessItr
    /\ \E proj \in {"angles", "np.nan", "nan entry"}, need \in BracketNeeds,
          root \in RootOutcomes, converged \in BOOLEAN :
        LET inv == TipAsymInversion(loc.Frac_in, loc.dt, need, root, 0)
            R == Max(inv.dist, FrontRadius(loc.Frac_in.sgndDist))
        IN /\ converged => loc.itr > 0
           /\ IF cfg.K1cFunc /\ proj = "np.nan" /\ loc.itr = 0
                 /\ ~cfg.anisotropic
              THEN /\ loc' = loc
                   /\ pc' = "raised"
                   /\ exc' = "TypeError"
              ELSE IF cfg.K1cFunc /\ proj # "angles"
              THEN PerfNodeUpdate(Returned(11, None), "attempt_done")
              ELSE IF inv.raised
              THEN /\ loc' = [loc EXCEPT !.cap = "tip bracket"]
                   /\ pc' = "raised"
                   /\ exc' = "SystemExit"
              ELSE IF inv.dist = NaN
              THEN PerfNodeUpdate(Returned(7, None), "attempt_done")
              ELSE IF ~cfg.anisotropic
              THEN ExplicitFinish(LevelSet(R, Fr.mesh))
              ELSE IF ~cfg.K1cFunc
              THEN /\ loc' = [loc EXCEPT !.sgndDist_k = LevelSet(R, Fr.mesh)]
                   /\ pc' = "raised"
                   /\ exc' = "UnboundLocalError"
              ELSE IF converged
              THEN ExplicitFinish(LevelSet(R, Fr.mesh))
              ELSE /\ loc' = [loc EXCEPT !.itr = @ + 1,
                                         !.sgndDist_k = LevelSet(R, Fr.mesh)]
                   /\ pc' = pc
                   /\ exc' = exc
    /\ UNCHANGED <<cfg, Fr, C, timeStep_limit>> /\ UNCHANGED ctrl

\* the toughness loop has used maxToughnessItr passes: the step goes on
ExplicitToughnessCap ==
    /\ pc = "ex_tough"
    /\ loc.itr >= maxToughnessItr
    /\ LET new == [loc.Fr_kplus1 EXCEPT
                      !.v = [n \in 1..Len(loc.Fr_kplus1.EltTip) |->
                                Quotient(FrontRadius(loc.sgndDist_k)
                                           - FrontRadius(
                                                 loc.Frac_in.sgndDist),
                                         loc.dt)],
                      !.sgndDist = loc.sgndDist_k]
       IN PerfNodeUpdate([Returned(1, new) EXCEPT !.cap = "toughness"],
                         "attempt_done")
    /\ UNCHANGED <<cfg, Fr, C, timeStep_limit>> /\ UNCHANGED ctrl

\* ------------------------------------ injection_same_footprint_volumeControl
\* MakeEquationSystem_volumeControl_sameFP followed by np.linalg.solve: the
\* injected volume is shared by the cells of the crack, a cell opening less
\* the larger its diagonal entry is
SolveSameFP(w, EltCrack, M, dt, mesh) ==
    LET share == ((Qin * dt) \div EltArea(mesh)) \div Cardinality(EltCrack)
    IN [c \in Cells |->
           IF c \notin EltCrack THEN w[c]
           ELSE IF dt = NaN THEN NaN
           ELSE w[c] + (share * M[CenterElts, CenterElts]) \div M[c, c]]

\* the tip entries of C are saved and the filling fraction correction applied
VcSameCorrect ==
    /\ pc = "vc_same"
    /\ loc' = [loc EXCEPT !.C_EltTip = SubMatrix(C, Range(Fr.EltTip))]
    /\ C' = ApplyTipCorrection(C, Fr.EltTip, Fr.FillF)
    /\ pc' = "vc_same_solve"
    /\ UNCHANGED <<cfg, Fr, timeStep_limit, exc>> /\ UNCHANGED ctrl

\* the linear solve, the restoring of C and the start of the front loop
VcSameSolve ==
    /\ pc = "vc_same_solve"
    /\ LET w_k == SolveSameFP(Fr.w, Fr.EltCrack, C, loc.dt, Fr.mesh)
       IN /\ C' = RestoreSubMatrix(C, loc.C_EltTip)
          /\ IF WidthHasNaN(w_k)
             THEN PerfNodeUpdate(Returned(5, None), "attempt_done")
             ELSE PerfNodeUpdate([loc EXCEPT !.w_k = w_k, !.C_EltTip = <<>>,
                                            !.k = 1, !.itr = 1,
                                            !.sgndDist_k = Fr.sgndDist,
                                            !.fill_frac_last = Fr.FillF],
                                 "vc_ext_tough")
    /\ UNCHANGED <<cfg, Fr, timeStep_limit>> /\ UNCHANGED ctrl

\* -------------------------------- injection_extended_footprint_volumeControl
\* the front found from the width of iteration k of the front loop may differ
\* from the one found from the width of the iteration before
Wiggles == {0, 1}

\* one pass of the toughness loop: the projection, the tip inversion and the
\* fast marching method; the loop counts from 1, and in its first pass
\* Kprime_km1 is 0 and the norm of 1 - abs(Kprime_k / Kprime_km1) inf or nan.
\* With a K1cFunc the projection from the ribbon is taken once before the
\* loop and again, from the same level set, in the first pass: np.nan in
\* place of the angles is indexed before the loop by
\* get_toughness_from_cellCenter unless the material is anisotropic
\* (TypeError); in a pass a nan ends the step with status 11
VcExtToughness ==
    /\ pc = "vc_ext_tough"
    /\ loc.itr < maxToughnessItr
    /\ \E proj \in {"angles", "np.nan", "nan entry"}, need \in BracketNeeds,
          root \in RootOutcomes, wiggle \in Wiggles, unevaluated \in BOOLEAN,
          converged \in BOOLEAN :
        LET inv == TipAsymInversion(Fr, loc.dt, need, root, wiggle)
            R == Max(inv.dist, FrontRadius(Fr.sgndDist))
        IN /\ wiggle # 0 => loc.k > 1
           /\ converged => loc.itr > 1
           /\ IF cfg.K1cFunc /\ proj = "np.nan" /\ loc.itr = 1
                 /\ ~cfg.anisotropic
              THEN /\ loc' = loc
                   /\ pc' = "raised"
                   /\ exc' = "TypeError"
              ELSE IF cfg.K1cFunc /\ proj # "angles" THEN Return(11, None)
              ELSE IF inv.raised
              THEN /\ loc' = [loc EXCEPT !.cap = "tip bracket"]
                   /\ pc' = "raised"
                   /\ exc' = "SystemExit"
              ELSE IF inv.dist = NaN THEN Return(7, None)
              ELSE IF unevaluated THEN Return(2, None)
              ELSE /\ loc' = [loc EXCEPT
                                 !.sgndDist_k = LevelSet(R, Fr.mesh),
                                 !.itr = IF ~cfg.K1cFunc \/ converged
                                         THEN @ ELSE @ + 1]
                   /\ pc' = IF ~cfg.K1cFunc \/ converged
                            THEN "vc_ext_front" ELSE pc
                   /\ exc' = exc
    /\ UNCHANGED <<cfg, Fr, C, timeStep_limit>> /\ UNCHANGED ctrl

\* the toughness loop has used its passes: the step goes on with the last
\* level set. itr starts at 1: with maxToughnessItr at 1 the loop makes no
\* pass, and the level set is the copy of that of the last time step; the
\* projection before the loop is still taken, and np.nan in place of the
\* angles raises TypeError there
VcExtToughnessCap ==
    /\ pc = "vc_ext_tough"
    /\ loc.itr >= maxToughnessItr
    /\ \E proj \in {"angles", "np.nan"} :
        IF cfg.K1cFunc /\ proj = "np.nan" /\ loc.itr = 1 /\ ~cfg.anisotropic
        THEN /\ loc' = loc
             /\ pc' = "raised"
             /\ exc' = "TypeError"
        ELSE /\ loc' = [loc EXCEPT
                           !.cap = IF maxToughnessItr > 1 THEN "toughness"
                                   ELSE @]
             /\ pc' = "vc_ext_front"
             /\ exc' = exc
    /\ UNCHANGED <<cfg, Fr, C, timeStep_limit>> /\ UNCHANGED ctrl

\* the new front, the check of the grid boundary and the filling fractions
VcExtFront ==
    /\ pc = "vc_ext_front"
    /\ \E frontOk \in BOOLEAN, ferr \in FillErrors :
        LET EltsTipNew == reconstruct_front(loc.sgndDist_k, Fr.mesh)
            FillFrac_k == FillFrac(loc.sgndDist_k, Fr.mesh, EltsTipNew, ferr,
                                   ClampTolerance(cfg.mode))
        IN IF ~frontOk THEN Return(3, None)
           ELSE IF ReachedEndOfGrid(EltsTipNew)
           THEN /\ Fr.mesh < MaxRemesh
                /\ loc' = [Returned(12, None) EXCEPT
                              !.EltsTipNew = EltsTipNew]
                /\ pc' = "attempt_done"
                /\ exc' = exc
           ELSE IF FillInvalid(FillFrac_k) THEN Return(9, None)
           ELSE /\ loc' = [loc EXCEPT !.EltsTipNew = EltsTipNew,
                                      !.FillFrac_k = FillFrac_k]
                /\ pc' = "vc_ext_tip"
                /\ exc' = exc
    /\ UNCHANGED <<cfg, Fr, C, timeStep_limit>> /\ UNCHANGED ctrl

\* the tip volume; the tip entries of C are saved and the filling fraction
\* correction applied
VcExtTip ==
    /\ pc = "vc_ext_tip"
    /\ \E werr \in TipWidthErrors, KIPrimeNaN \in BOOLEAN :
        LET stagnant == FrontRadius(loc.sgndDist_k) = FrontRadius(Fr.sgndDist)
            wTip == TipWidths(loc.FillFrac_k, werr)
        IN IF stagnant /\ KIPrimeNaN THEN Return(8, None) /\ C' = C
           ELSE IF AnyNegative(wTip) THEN Return(4, None) /\ C' = C
           ELSE /\ loc' = [loc EXCEPT
                              !.wTip = wTip,
                              !.C_EltTip = SubMatrix(C, Range(loc.EltsTipNew))]
                /\ C' = ApplyTipCorrection(C, loc.EltsTipNew, loc.FillFrac_k)
                /\ pc' = "vc_ext_solve"
                /\ exc' = exc
    /\ UNCHANGED <<cfg, Fr, timeStep_limit>> /\ UNCHANGED ctrl

\* the linear solve, the restoring of C and the new fracture
VcExtSolve ==
    /\ pc = "vc_ext_solve"
    /\ LET sol == SolveExtendedFP(Fr.w, loc.wTip, Fr.EltChannel,
                                  loc.EltsTipNew, C, loc.dt, Fr.mesh)
           lists == UpdateLists(loc.EltsTipNew)
           moved == [Fr EXCEPT !.time = @ + loc.dt,
                               !.w = AdvancedWidth(Fr, sol.dw, loc.EltsTipNew,
                                                   loc.wTip)]
           full == [moved EXCEPT
                       !.FillF = loc.FillFrac_k,
                       !.EltChannel = lists.EltChannel,
                       !.EltTip = lists.EltTip,
                       !.EltCrack = lists.EltCrack,
                       !.EltRibbon = lists.EltRibbon,
                       !.p = [c \in Cells |-> IF c \in lists.EltCrack
                                              THEN sol.p \div 1000 ELSE 0],
                       !.sgndDist = loc.sgndDist_k,
                       !.v = [n \in 1..Len(loc.EltsTipNew) |->
                                 Quotient(FrontRadius(loc.sgndDist_k)
                                            - FrontRadius(Fr.sgndDist),
                                          loc.dt)]]
       IN /\ C' = RestoreSubMatrix(C, loc.C_EltTip)
          /\ IF WidthHasNaN(moved.w) \/ WidthNegative(moved.w)
             THEN /\ Return(5, None)
                  /\ Fr' = AssignToCopy(Fr, moved).Fr_lstTmStp
             ELSE /\ Fr' = AssignToCopy(Fr, full).Fr_lstTmStp
                  /\ loc' = [loc EXCEPT
                                !.Fr_k = AssignToCopy(Fr, full).Fr_kplus1,
                                !.C_EltTip = <<>>, !.wTip = <<>>,
                                !.EltsTipNew = <<>>, !.FillFrac_k = <<>>,
                                !.sgndDist_k = <<>>]
                  /\ pc' = "vc_front_check"
                  /\ exc' = exc
    /\ UNCHANGED <<cfg, timeStep_limit>> /\ UNCHANGED ctrl

\* ------------------------- the front loop of attempt_time_step_volumeControl
\* abs((sum(Fr_k.FillF) - sum(fill_frac_last)) / len(Fr_k.FillF))
FrontNorm(FillF, fill_frac_last) ==
    Abs(SumSeq(FillF) - SumSeq(fill_frac_last)) \div Len(FillF)

\* after an iteration of the front loop: the limit on the iterations, then
\* the loop condition
\* the body of the front loop is injection_extended_footprint_volumeControl,
\* which starts with its toughness loop
VcFrontLoopBodySkipsInversion == "vc_ext_front"
VcFrontLoopBody == "vc_ext_tough"

VcFrontCheck ==
    /\ pc = "vc_front_check"
    /\ LET norm == FrontNorm(loc.Fr_k.FillF, loc.fill_frac_last)
       IN IF loc.k = maxFrontItr
          THEN /\ loc' = [Returned(6, None) EXCEPT !.cap = "front"]
               /\ pc' = "attempt_done"
               /\ exc' = exc
          ELSE IF norm > tolFractFront
          THEN /\ loc' = [loc EXCEPT !.k = @ + 1, !.itr = 1,
                                     !.w_k = loc.Fr_k.w,
                                     !.sgndDist_k = Fr.sgndDist,
                                     !.fill_frac_last = loc.Fr_k.FillF]
               /\ pc' = VcFrontLoopBody
               /\ exc' = exc
          ELSE Return(1, loc.Fr_k)
    /\ UNCHANGED <<cfg, Fr, C, timeStep_limit>> /\ UNCHANGED ctrl

VolumeControlImplicit ==
    \/ VcSameCorrect \/ VcSameSolve \/ VcExtToughness \/ VcExtToughnessCap
    \/ VcExtFront \/ VcExtTip \/ VcExtSolve \/ VcFrontCheck

\* ---------------------------------------------------------- Picard_Newton
\* the search of findBracket: the residuals have the same sign until the
\* upper end has been moved `need` times
VelocityBracketCap == 60
RECURSIVE findBracket(_, _)
findBracket(need, cnt) ==
    IF need > cnt
    THEN IF cnt + 1 >= VelocityBracketCap THEN "SystemExit"
         ELSE findBracket(need, cnt + 1)
    ELSE "found"

VelocityBracketNeeds == {0, VelocityBracketCap}
ConvergeAts == {1, 2, maxSolverItr}

\* the iteration from pass k on: the system function raises SystemExit when
\* the velocity bracket is not found, a singular matrix gives NaN, the
\* iterate of pass convergeAt meets the tolerance, and reaching maxitr gives
\* NaN
RECURSIVE Picard_Newton(_, _, _, _, _)
Picard_Newton(k, maxitr, convergeAt, singular, velNeed) ==
    IF k < maxitr
    THEN IF findBracket(velNeed, 0) = "SystemExit"
         THEN [kind |-> "SystemExit", k |-> k]
         ELSE IF singular THEN [kind |-> "nan", k |-> k]
         ELSE IF k + 1 = maxitr THEN [kind |-> "nan", k |-> k + 1]
         ELSE IF k >= convergeAt THEN [kind |-> "sol", k |-> k + 1]
         ELSE Picard_Newton(k + 1, maxitr, convergeAt, singular, velNeed)
    ELSE [kind |-> "sol", k |-> k]

\* ------------------------------------------------- injection_same_footprint
VfSameCorrect ==
    /\ pc = "vf_same"
    /\ loc' = [loc EXCEPT !.C_EltTip = SubMatrix(C, Range(Fr.EltTip))]
    /\ C' = ApplyTipCorrection(C, Fr.EltTip, Fr.FillF)
    /\ pc' = "vf_same_solve"
    /\ UNCHANGED <<cfg, Fr, timeStep_limit, exc>> /\ UNCHANGED ctrl

\* w_k[smallNgtvWTip] = 0.01 * abs(w_k[smallNgtvWTip]), for the cells with
\* w_k < 0 and w_k > -1 * np.mean(w_k): the mean is not a whole number, and
\* the test is made on the sum, w_k * NumberOfElts > -sum(w_k)
SmallNegativeFix(w) ==
    LET sum == SumOver(Cells, w)
    IN [c \in Cells |-> IF ~WidthHasNaN(w) /\ w[c] < 0
                             /\ w[c] * NumberOfElts > -sum
                        THEN Abs(w[c]) \div 100 ELSE w[c]]

\* the nonlinear solve, the restoring of C and the start of the front loop
VfSameSolve ==
    /\ pc = "vf_same_solve"
    /\ \E convergeAt \in ConvergeAts, singular \in BOOLEAN,
          velNeed \in VelocityBracketNeeds :
        LET sol == Picard_Newton(1, maxSolverItr, convergeAt, singular,
                                 velNeed)
            w_k == SmallNegativeFix(
                       SolveSameFP(Fr.w, Fr.EltCrack, C, loc.dt, Fr.mesh))
        IN IF sol.kind = "SystemExit"
           THEN /\ loc' = [loc EXCEPT !.cap = "velocity bracket"]
                /\ pc' = "raised"
                /\ exc' = "SystemExit"
                /\ C' = C
           ELSE /\ C' = RestoreSubMatrix(C, loc.C_EltTip)
                /\ IF sol.kind = "nan"
                   THEN /\ loc' = [Returned(5, None) EXCEPT
                                      !.cap = IF sol.k = maxSolverItr
                                              THEN "solver" ELSE "none"]
                        /\ pc' = "attempt_done"
                        /\ exc' = exc
                   ELSE IF WidthHasNaN(w_k) \/ WidthNegative(w_k)
                   THEN Return(5, None)
                   ELSE /\ loc' = [loc EXCEPT !.w_k = w_k, !.C_EltTip = <<>>,
                                              !.k = 1, !.itr = 0,
                                              !.fill_frac_last = Fr.FillF]
                        /\ pc' = "vf_ext_tough"
                        /\ exc' = exc
    /\ UNCHANGED <<cfg, Fr, timeStep_limit>> /\ UNCHANGED ctrl

\* --------------------------------------------- injection_extended_footprint
\* one pass of the toughness loop and, when the loop ends at its limit, the
\* return of status 10
VfExtToughness ==
    /\ pc = "vf_ext_tough"
    /\ loc.itr < maxToughnessItr
    /\ \E need \in BracketNeeds, root \in RootOutcomes, wiggle \in Wiggles,
          converged \in BOOLEAN :
        LET inv == TipAsymInversion(Fr, loc.dt, need, root, wiggle)
        IN /\ wiggle # 0 => loc.k > 1
           /\ IF inv.raised
              THEN /\ loc' = [loc EXCEPT !.cap = "tip bracket"]
                   /\ pc' = "raised"
                   /\ exc' = "SystemExit"
              ELSE IF inv.dist = NaN THEN Return(7, None)
              ELSE IF converged \/ ~cfg.K1cFunc
              THEN /\ loc' = [loc EXCEPT
                                 !.sgndDist_k = LevelSet(inv.dist, Fr.mesh)]
                   /\ pc' = "vf_ext_front"
                   /\ exc' = exc
              ELSE IF loc.itr + 1 = maxToughnessItr
              THEN /\ loc' = [Returned(10, None) EXCEPT
                                 !.itr = loc.itr + 1, !.cap = "toughness"]
                   /\ pc' = "attempt_done"
                   /\ exc' = exc
              ELSE /\ loc' = [loc EXCEPT
                                 !.sgndDist_k = LevelSet(inv.dist, Fr.mesh),
                                 !.itr = @ + 1]
                   /\ pc' = pc
                   /\ exc' = exc
    /\ UNCHANGED <<cfg, Fr, C, timeStep_limit>> /\ UNCHANGED ctrl

\* the new front, the check of the grid boundary and the filling fractions
VfExtFront ==
    /\ pc = "vf_ext_front"
    /\ \E frontOk \in BOOLEAN, ferr \in FillErrors :
        LET EltsTipNew == reconstruct_front(loc.sgndDist_k, Fr.mesh)
            FillFrac_k == FillFrac(loc.sgndDist_k, Fr.mesh, EltsTipNew, ferr,
                                   ClampTolerance(cfg.mode))
        IN IF ~frontOk THEN Return(3, None)
           ELSE IF ReachedEndOfGrid(EltsTipNew)
           THEN /\ loc' = [loc EXCEPT !.EltsTipNew = EltsTipNew]
                /\ pc' = "raised"
                /\ exc' = "SystemExit"
           ELSE IF FillInvalid(FillFrac_k) THEN Return(9, None)
           ELSE /\ loc' = [loc EXCEPT !.EltsTipNew = EltsTipNew,
                                      !.FillFrac_k = FillFrac_k]
                /\ pc' = "vf_ext_solve"
                /\ exc' = exc
    /\ UNCHANGED <<cfg, Fr, C, timeStep_limit>> /\ UNCHANGED ctrl

\* the tip volume and the guess of the nonlinear solve: the assignment
\* guess[np.arange(EltChannel.size)] = ... * np.ones((EltCrack.size,)) puts
\* as many values as the crack has cells into as many places as the channel
\* has; the crack holds the tip cells besides the channel, so the shapes do
\* not broadcast and numpy raises ValueError before Picard_Newton is called
VfExtSolve ==
    /\ pc = "vf_ext_solve"
    /\ Cardinality(Fr.EltCrack) \notin {Cardinality(Fr.EltChannel), 1}
    /\ \E werr \in TipWidthErrors, KIPrimeNaN \in BOOLEAN :
        LET stagnant == FrontRadius(loc.sgndDist_k) = FrontRadius(Fr.sgndDist)
            wTip == TipWidths(loc.FillFrac_k, werr)
        IN IF stagnant /\ KIPrimeNaN THEN Return(8, None)
           ELSE IF AnyNegative(wTip) THEN Return(4, None)
           ELSE /\ loc' = [loc EXCEPT !.wTip = wTip]
                /\ pc' = "raised"
                /\ exc' = "ValueError"
    /\ UNCHANGED <<cfg, Fr, C, timeStep_limit>> /\ UNCHANGED ctrl

\* the front loop of attempt_time_step_viscousFluid does not come to its
\* test of the norm: no call of injection_extended_footprint returns status 1
ViscousFluid ==
    \/ VfSameCorrect \/ VfSameSolve \/ VfExtToughness \/ VfExtFront
    \/ VfExtSolve

\* ------------------------------------------ attempt_time_step_mechLoading
\* the module of this attempt function is not among the sources; what it
\* hands back is taken from the table of advance_time_step: status 1 with
\* the fracture later by the time step, a failure status with no fracture,
\* or status 12 at the edge of the grid
MechLoading ==
    /\ pc = "ml_attempt"
    /\ \E st \in {1, 5, 12} :
        /\ st = 1 => loc.dt # NaN
        /\ st = 12 => Fr.mesh < MaxRemesh
        /\ Return(st, IF st = 1 THEN [Fr EXCEPT !.time = @ + loc.dt]
                      ELSE None)
    /\ UNCHANGED <<cfg, Fr, C, timeStep_limit>> /\ UNCHANGED ctrl

\* ------------------------------------------------------ controller alone
Controller ==
    \/ RunStep \/ RunFinished \/ RunAccept \/ RunRemesh \/ RunRollback
    \/ RunFail \/ AdvanceEnter \/ Reattempt \/ AttemptReturned
    \/ ReattemptsExhausted

\* the two modes in which advance_time_step comes back to the run
InitRun ==
    InitWith({"viscous", "mechLoading"}, {FALSE}, {24}, MaxStepsRun,
             {FinalTime}, {solTimeSeries}, {tmStpPrefactor_max}, "run")
NextRun == Controller \/ ViscousFluid \/ MechLoading
SpecRun == InitRun /\ [][NextRun]_vars

\* ------------------------------------- the time series of the controller
\* sim_prop.maxTimeSteps of the time series specification
MaxStepsSeries == 6
FinalTimeSeries == 1200
\* solTimeSeries: a target reached only by a shortened step, one met by two
\* full steps, one between a full step and its reattempt, and the initial time
SeriesChoices ==
    {<<500, FinalTimeSeries>>, <<600, FinalTimeSeries>>,
     <<650, FinalTimeSeries>>, <<0, FinalTimeSeries>>}
InitSeries ==
    InitWith({"viscous", "mechLoading"}, {FALSE}, InitRadii, MaxStepsSeries,
             {FinalTimeSeries}, SeriesChoices, {tmStpPrefactor_max}, "run")
SpecSeries == InitSeries /\ [][NextRun]_vars

\* ------------------------------------------------------- every solver mode
Next ==
    \/ Controller
    \/ ExplicitFront \/ ExplicitSolve \/ ExplicitToughness
    \/ ExplicitToughnessCap
    \/ VolumeControlImplicit
    \/ ViscousFluid
    \/ MechLoading
Spec == Init /\ [][Next]_vars

MinOfSet(S) == CHOOSE x \in S : \A y \in S : x <= y
AcceptedSteps == {a.step : a \in accepted}

InitialFractures == {InitFracture(R) : R \in InitRadii}
AcceptedStates == {a.state : a \in accepted}
AttemptEnded == pc \in {"attempt_done", "raised"}

\* ------------------------------------------------------------------ claims

\* C1: whenever an attempt ends, by a return or by an exception, every entry
\* of C equals the entry C had when the attempt was entered (the matrix of the
\* current mesh, without the tip correction).
C1_CRestoredOnEveryExit ==
    AttemptEnded =>
        \A a \in Cells, b \in Cells : C[a, b] * Pow(2, Fr.mesh) = C0[a, b]

\* C2 (as stated): an attempt that ends with a status other than 1 returns
\* None, a successful one returns a new fracture, both leave the fracture
\* passed in unchanged, and the fracture the run continues from after a
\* failure is the initial fracture or a fracture accepted before.
C2_ResumeFromInitialOrAccepted ==
    /\ pc = "attempt_done" =>
            /\ Fr = loc.Frac_in
            /\ (loc.exitstatus # 1 => loc.Fr_k = None)
            /\ (loc.exitstatus = 1 => loc.Fr_k # None)
    /\ (pc = "run" /\ ev.kind \in {"rollback", "remesh"}) =>
            Fr \in InitialFractures \cup AcceptedStates

\* C2 (amended): an attempt that ends with a status other than 1 returns
\* None, a successful one returns a new fracture later by the time step, both
\* leave the fracture passed in unchanged; after a failure other than status
\* 12 the run continues from a fracture accepted before, and after status 12
\* from the remeshed current fracture, which has the time and the front of
\* the current fracture on a mesh of twice the cell size.
C2_ResumeFromAcceptedOrRemeshed ==
    /\ pc = "attempt_done" =>
            /\ Fr = loc.Frac_in
            /\ (loc.exitstatus # 1 => loc.Fr_k = None)
            /\ (loc.exitstatus = 1 =>
                    /\ loc.Fr_k # None
                    /\ loc.Fr_k.time = Fr.time + loc.dt
                    /\ loc.Fr_k.mesh = Fr.mesh)
    /\ (pc = "run" /\ ev.kind = "rollback") => Fr \in AcceptedStates
    /\ (pc = "run" /\ ev.kind = "remesh") =>
            /\ Fr.mesh = ev.Fr_before.mesh + 1
            /\ Fr.time = ev.Fr_before.time
            /\ FrontRadius(Fr.sgndDist) = FrontRadius(ev.Fr_before.sgndDist)

\* the run has resumed from a check point after a failed step
C2_Witness ==
    /\ pc = "run"
    /\ ev.kind = "rollback"
    /\ Fr \in AcceptedStates
    /\ i = 5

\* C3: when a step fails with a status other than 1 or 12 and the run is not
\* ended, the fracture the run resumes from is the oldest accepted fracture
\* held in the five slot buffer.
C3_RollbackResumesFromOldest ==
    ev.kind = "rollback" => ev.stamp = MinOfSet(ev.held)

\* C4: the buffer holds the most recently accepted fractures: no fracture in
\* the buffer was accepted earlier than an accepted fracture that is absent
\* from the buffer.
C4_QueueHoldsMostRecent ==
    \A s \in HeldStamps : \A a \in AcceptedSteps \ HeldStamps : a < s

\* C5: the run ends with a failure only if the reduced prefactor is below 0.1
\* or the buffer holds no accepted fracture at all.
C5_TerminalFailureOnlyWhenEmptyOrSmall ==
    ev.kind = "exit" => (ev.prefactor < 100 \/ ev.held = {})

\* C6: on status 12 the run halves every entry of C once, replaces the
\* fracture by its remeshing with factor 2 and goes to the next pass of the
\* loop: the prefactor and the buffer are left alone, nothing is rolled back
\* and the run does not end; advance_time_step hands status 12 to the run
\* without another attempt.
C6_Status12HalvesAndRemeshes ==
    [][/\ (pc = "handle" /\ status = 12) =>
            /\ \A a \in Cells, b \in Cells : 2 * C'[a, b] = C[a, b]
            /\ hx(Fr'.mesh) = 2 * hx(Fr.mesh)
            /\ Fr'.time = Fr.time
            /\ FrontRadius(Fr'.sgndDist) = FrontRadius(Fr.sgndDist)
            /\ tmStpPrefactor' = tmStpPrefactor
            /\ smallStep_cnt' = smallStep_cnt
            /\ fr_queue' = fr_queue
            /\ i' = i + 1
            /\ pc' = "run"
            /\ exc' = "none"
       /\ (pc = "attempt_done" /\ loc.exitstatus = 12) =>
            (pc' = "handle" /\ status' = 12)]_vars

\* the run has remeshed and is about to retry
C6_Witness ==
    /\ pc = "advance"
    /\ ev.kind = "remesh"
    /\ Fr.mesh = 1
    /\ C # C0

\* C7: in every solver mode, an attempt whose new front has a tip cell on the
\* boundary of the grid returns status 12.
C7_BoundaryTipReturns12 ==
    (AttemptEnded /\ loc.EltsTipNew # <<>> /\ ReachedEndOfGrid(loc.EltsTipNew))
        => (pc = "attempt_done" /\ loc.exitstatus = 12)

\* C8: an attempt in which an inner limit was exceeded (toughness loop, front
\* loop, nonlinear solver, tip inversion bracket, velocity bracket) ends by
\* returning a failure status: it neither raises nor succeeds.
C8_LimitExceededReturnsFailure ==
    (AttemptEnded /\ loc.cap # "none")
        => (pc = "attempt_done" /\ loc.exitstatus # 1)

\* C9: an attempt in which the Picard/Newton solver reached its iteration
\* limit returns status 6.
C9_SolverLimitReturns6 ==
    (pc = "attempt_done" /\ loc.cap = "solver") => loc.exitstatus = 6

\* C10: an attempt in which the toughness loop reached maxToughnessItr
\* without converging returns status 10, in the volume control modes and in
\* the viscous mode.
C10_ToughnessLimitReturns10 ==
    (pc = "attempt_done" /\ loc.cap = "toughness") => loc.exitstatus = 10

\* an attempt function has been called and the controller has not yet
\* looked at what it returned
InAttempt == loc.Frac_in # None

\* C11: the attempt with index a of the reattempt loop is made with the time
\* step TimeStep * reAttemptFactor^a, and every reattempt (a > 0) with a time
\* step smaller than TimeStep.
C11_ReattemptStepShrinks ==
    InAttempt =>
        /\ loc.dt = (loc.TimeStep * Pow(reAttemptFactor, loc.att))
                        \div Pow(10, loc.att)
        /\ (loc.att > 0 => loc.dt < loc.TimeStep)

\* C12: no attempt is made with a time step larger than the value
\* sim_prop.timeStep_limit had when the simulation started.
C12_StepAtMostInitialLimit ==
    InAttempt => loc.dt <= timeStep_limit_0

\* C13: the fracture returned with status 1 is later than the fracture passed
\* in by the time step attempted, and that time step is positive.
C13_AcceptedStepAdvancesTime ==
    (pc = "attempt_done" /\ loc.exitstatus = 1) =>
        /\ loc.Fr_k.time = Fr.time + loc.dt
        /\ loc.dt > 0

\* C14 (as stated): the run returns normally only with a fracture whose time
\* has reached FinalTime.
C14_FinishedOnlyAtFinalTime ==
    pc = "finished" => Fr.time >= cfg.FinalTime

\* C14 (amended): the run returns normally exactly when the time of the
\* current fracture has reached FinalTime or maxTimeSteps passes of the loop
\* have been made, and it returns with the fracture it had then.
C14_FinishedAtFinalTimeOrMaxSteps ==
    /\ [](pc = "finished" =>
            (Fr.time >= cfg.FinalTime \/ i >= cfg.maxTimeSteps))
    /\ [][pc = "run" =>
            /\ (pc' = "finished") =
                    ~(Fr.time < cfg.FinalTime /\ i < cfg.maxTimeSteps)
            /\ (pc' = "finished" => Fr' = Fr /\ i' = i)]_vars

\* the run has returned normally with a fracture at or after FinalTime
C14_Witness ==
    /\ pc = "finished"
    /\ Fr.time >= cfg.FinalTime
    /\ i < cfg.maxTimeSteps
    /\ accepted # {}

\* the times of the fractures the run has held: the initial one and the
\* accepted ones
TimesReached == {0} \cup {a.state.time : a \in accepted}

\* C15: when the run has returned normally at FinalTime, every target of
\* solTimeSeries up to FinalTime is the time of some fracture of the run; and
\* between two passes of the loop, every target the run has moved past is the
\* time of some fracture of the run.
C15_EveryTargetReached ==
    /\ (pc = "finished" /\ Fr.time >= cfg.FinalTime) =>
            \A n \in 1..Len(cfg.solTimeSeries) :
                cfg.solTimeSeries[n] <= cfg.FinalTime
                    => cfg.solTimeSeries[n] \in TimesReached
    /\ pc = "run" =>
            \A n \in 1..tmSrs_indx : cfg.solTimeSeries[n] \in TimesReached

\* the phase of a time step attempt the program is about to run; the explicit
\* step reconstructs the front from the level set of the last velocity, and a
\* toughness loop whose count has come to maxToughnessItr is left
Phase(p, itr) ==
    CASE p \in {"vf_same", "vf_same_solve", "vc_same", "vc_same_solve"}
            -> "same footprint"
      [] p \in {"vf_ext_tough", "vc_ext_tough", "ex_tough"}
            -> IF itr < maxToughnessItr
               THEN "tip inversion and fast marching"
               ELSE "end of the toughness loop"
      [] p \in {"vf_ext_front", "vc_ext_front"} -> "front reconstruction"
      [] p \in {"vc_ext_tip", "vc_ext_solve", "vf_ext_solve"}
            -> "tip volume and solve"
      [] p = "vc_front_check" -> "front check"
      [] p = "ex_front" -> "explicit step: front reconstruction"
      [] p = "ex_tip" -> "explicit step: tip volume and solve"
      [] OTHER -> "outside"

\* every phase can end the attempt
PhaseEnds ==
    {<<"outside", "outside">>}
    \cup {<<ph, "outside">> : ph \in
            {"same footprint", "tip inversion and fast marching",
             "end of the toughness loop",
             "front reconstruction", "tip volume and solve", "front check",
             "explicit step: front reconstruction",
             "explicit step: tip volume and solve"}}

\* a pass of the front loop: tip inversion and fast marching, front
\* reconstruction, tip volume and solve
FrontLoopOrder ==
    {<<"tip inversion and fast marching", "tip inversion and fast marching">>,
     <<"tip inversion and fast marching", "end of the toughness loop">>,
     <<"end of the toughness loop", "front reconstruction">>,
     <<"tip inversion and fast marching", "front reconstruction">>,
     <<"front reconstruction", "tip volume and solve">>,
     <<"tip volume and solve", "tip volume and solve">>,
     <<"tip volume and solve", "front check">>,
     <<"front check", "tip inversion and fast marching">>}

\* same footprint, then the front loop
ImplicitOrder ==
    {<<"outside", "same footprint">>,
     <<"same footprint", "same footprint">>,
     <<"same footprint", "tip inversion and fast marching">>}
    \cup FrontLoopOrder \cup PhaseEnds

\* the explicit step without its tip inversion, then the front loop
SemiImplicitOrder ==
    {<<"outside", "explicit step: front reconstruction">>,
     <<"explicit step: front reconstruction",
       "explicit step: tip volume and solve">>,
     <<"explicit step: tip volume and solve",
       "tip inversion and fast marching">>}
    \cup FrontLoopOrder \cup PhaseEnds

\* the explicit step: the front from the last velocity, tip volume and solve,
\* and the tip inversion last
ExplicitOrder ==
    {<<"outside", "explicit step: front reconstruction">>,
     <<"explicit step: front reconstruction",
       "explicit step: tip volume and solve">>,
     <<"explicit step: tip volume and solve",
       "tip inversion and fast marching">>,
     <<"tip inversion and fast marching", "tip inversion and fast marching">>,
     <<"tip inversion and fast marching", "end of the toughness loop">>}
    \cup PhaseEnds

\* a pass of the front loop of volume control whose toughness loop makes no
\* pass goes to the front reconstruction without a tip inversion
WithoutInversion ==
    {<<"same footprint", "end of the toughness loop">>,
     <<"explicit step: tip volume and solve", "end of the toughness loop">>,
     <<"front check", "end of the toughness loop">>}

\* the phase a step runs and the phase that comes next are a pair of the order
FollowsOrder(order) == <<Phase(pc, loc.itr), Phase(pc', loc'.itr)>> \in order

C17_ReturnedWidthNotNegative ==
    /\ (pc = "attempt_done" /\ loc.exitstatus = 1) =>
            \A c \in loc.Fr_k.EltCrack : loc.Fr_k.w[c] >= 0
    /\ \A a \in accepted : \A c \in a.state.EltCrack : a.state.w[c] >= 0

\* the extended footprint solve of volume control has given a new width and
\* the attempt has returned it with status 1
C17_Witness ==
    /\ pc = "attempt_done"
    /\ cfg.mode = "vc_implicit"
    /\ loc.exitstatus = 1
    /\ loc.Fr_k.w # Fr.w

\* ------------------------------------- the check of the filling fractions
\* the controller at rest, for the specifications that evaluate one function
AtRest(modes, entry) ==
    /\ cfg \in [mode : modes, K1cFunc : {FALSE}, anisotropic : {FALSE},
                maxToughnessItr : {2}, maxTimeSteps : {MaxStepsDetail},
                FinalTime : {FinalTime},
                solTimeSeries : {solTimeSeries},
                tmStpPrefactor_max : {tmStpPrefactor_max}, entry : {entry}]
    /\ i = 0
    /\ Fr = InitFracture(24)
    /\ fr_queue = [n \in 0..4 |-> None]
    /\ C = C0
    /\ smallStep_cnt = 0
    /\ tmStpPrefactor = tmStpPrefactor_max
    /\ timeStep_limit = timeStep_limit_0
    /\ tmSrs_indx = 0
    /\ next_in_tmSrs = cfg.solTimeSeries[1]
    /\ status = 0
    /\ Fr_n_pls1 = None
    /\ exc = "none"
    /\ fr_stamp = [n \in 0..4 |-> -1]
    /\ accepted = {}
    /\ ev = NoEvent

\* the filling fractions Integral_over_cell can come back with, around the
\* ends of the interval, of the two tolerances and of the test against
\* 0 - eps
FillCells == 2
ComputedFills ==
    {-5, 0 - 2 * eps, 0 - eps, 0, FillOne \div 4, FillOne, FillOne + 5,
     FillOne + 10, FillOne + 500, FillOne + 1000, FillOne + 1005}

\* the functions that evaluate the filling fractions, each called by itself
InitFill ==
    /\ AtRest(Modes, "attempt")
    /\ pc = "fill_eval"
    /\ \E computed \in [1..FillCells -> ComputedFills] :
            loc = [computed |-> computed, FillFrac_k |-> computed,
                   exitstatus |-> 0, stored |-> <<>>]

\* the rounding to 1, the range check and, much later, the assignment
\* Fr_kplus1.FillF = FillFrac_k[partlyFilledTip]. Between the two the function
\* can return status 8 or 4 from the tip volume and, in volume control, 5
\* from the solve; the viscous fluid solver raises ValueError where it sets
\* the guess of its solve, and never comes to the assignment
FillCheck ==
    /\ pc = "fill_eval"
    /\ \E later \in {1, 4, 5, 8} :
        LET FillFrac_k ==
                [n \in DOMAIN loc.FillFrac_k |->
                    ClampFill(loc.FillFrac_k[n], ClampTolerance(cfg.mode))]
        IN IF FillInvalid(FillFrac_k)
           THEN /\ later = 1
                /\ loc' = [loc EXCEPT !.FillFrac_k = FillFrac_k,
                                      !.exitstatus = 9]
                /\ pc' = "fill_done"
                /\ exc' = exc
           ELSE IF later \in {4, 8} \/ (later = 5 /\ cfg.mode # "viscous")
           THEN /\ loc' = [loc EXCEPT !.FillFrac_k = FillFrac_k,
                                      !.exitstatus = later]
                /\ pc' = "fill_done"
                /\ exc' = exc
           ELSE IF cfg.mode = "viscous"
           THEN /\ later = 1
                /\ loc' = [loc EXCEPT !.FillFrac_k = FillFrac_k]
                /\ pc' = "raised"
                /\ exc' = "ValueError"
           ELSE /\ loc' = [loc EXCEPT !.FillFrac_k = FillFrac_k,
                                      !.exitstatus = 1,
                                      !.stored = FillFrac_k]
                /\ pc' = "fill_done"
                /\ exc' = exc
    /\ UNCHANGED <<cfg, Fr, C, timeStep_limit>> /\ UNCHANGED ctrl

NextFill == FillCheck
SpecFill == InitFill /\ [][NextFill]_vars

\* C18: a filling fraction stored with status 1 is in [0, 1]; a computed
\* value in [1, 1 + 1e-4] is stored as 1; a computed value below 0 or above
\* 1 + 1e-4 gives status 9, and no other value does.
C18_FillClampedByOneTolerance ==
    pc = "fill_done" =>
        /\ loc.exitstatus = 1 =>
                \A n \in DOMAIN loc.stored :
                    /\ loc.stored[n] >= 0 /\ loc.stored[n] <= FillOne
                    /\ loc.computed[n] >= FillOne => loc.stored[n] = FillOne
        /\ loc.exitstatus = 9 <=>
                \E n \in DOMAIN loc.computed :
                    \/ loc.computed[n] < 0
                    \/ loc.computed[n] > FillOne + FillOne \div 10000

\* --------------------------------------- MakeEquationSystem_volumeControl
\* a[idx], C[np.ix_(rows, cols)] and np.dot(M, x)
Take(a, idx) == [n \in 1..Len(idx) |-> a[idx[n]]]
Ix(Cmat, rows, cols) ==
    [r \in 1..Len(rows) |-> [c \in 1..Len(cols) |-> Cmat[rows[r], cols[c]]]]
Dot(M, x) ==
    [r \in 1..Len(M) |-> SumSeq([j \in 1..Len(x) |-> M[r][j] * x[j]])]

\* the row stacked under the elasticity rows: np.ones, then A[-1, -1] = 0
VolumeRowAllOnes(n) == [j \in 1..(n + 1) |-> 1]
VolumeRow(n) == [j \in 1..(n + 1) |-> IF j = n + 1 THEN 0 ELSE 1]

MakeEquationSystem_volumeControl(w_lst_tmstp, wTip, EltChannel, EltTip, sigma_o, Cmat, dt, Q, ElemArea, lkOff) ==
    LET Ccc == Ix(Cmat, EltChannel, EltChannel)
        Cct == Ix(Cmat, EltChannel, EltTip)
        n == Len(EltChannel)
        A == [r \in 1..(n + 1) |->
                IF r <= n THEN Ccc[r] \o <<-1>> ELSE VolumeRow(n)]
        Ccc_w == Dot(Ccc, Take(w_lst_tmstp, EltChannel))
        Cct_wTip == Dot(Cct, wTip)
        S == [r \in 1..n |->
                -sigma_o[EltChannel[r]] - Ccc_w[r] - Cct_wTip[r]]
              \o <<(SumSeq(Q) * dt) \div ElemArea
                      - (SumSeq(wTip) - SumSeq(Take(w_lst_tmstp, EltTip)))
                      - SumSeq(lkOff)>>
    IN [A |-> A, S |-> S]

MakeEquationSystem_volumeControl_symmetric(w_lst_tmstp, wTip_sym, EltChannel_sym, EltTip_sym, C_s, dt, Q, sigma_o, ElemArea, LkOff, vol_weights, sym_elements, dwTip) ==
    LET Ccc == Ix(C_s, EltChannel_sym, EltChannel_sym)
        Cct == Ix(C_s, EltChannel_sym, EltTip_sym)
        n == Len(EltChannel_sym)
        weights == Take(vol_weights, EltChannel_sym) \o <<0>>
        A == [r \in 1..(n + 1) |->
                IF r <= n THEN Ccc[r] \o <<-1>> ELSE weights]
        Ccc_w == Dot(Ccc, Take(w_lst_tmstp,
                               Take(sym_elements, EltChannel_sym)))
        Cct_wTip == Dot(Cct, wTip_sym)
        S == [r \in 1..n |->
                -sigma_o[EltChannel_sym[r]] - Ccc_w[r] - Cct_wTip[r]]
              \o <<(SumSeq(Q) * dt) \div ElemArea - SumSeq(dwTip)
                      - SumSeq(LkOff)>>
    IN [A |-> A, S |-> S]

\* a result of np.linalg.solve keeps its digits down to 1 / SolveUnit
SolveUnit == 1000
\* np.linalg.solve(A, S) for three unknowns: the solution is num[j] / den
\* (Cramer's rule, den > 0), and the result x[j] is that quotient rounded to
\* the nearest multiple of 1 / SolveUnit; a matrix with determinant 0 raises
\* LinAlgError
np_linalg_solve(A, S) ==
    LET Det3(M) ==
            M[1][1] * (M[2][2] * M[3][3] - M[2][3] * M[3][2])
              - M[1][2] * (M[2][1] * M[3][3] - M[2][3] * M[3][1])
              + M[1][3] * (M[2][1] * M[3][2] - M[2][2] * M[3][1])
        WithS(j) ==
            [r \in 1..3 |-> [c \in 1..3 |-> IF c = j THEN S[r] ELSE A[r][c]]]
        d == Det3(A)
        sign == IF d < 0 THEN -1 ELSE 1
        num == [j \in 1..3 |-> sign * Det3(WithS(j))]
        den == sign * d
    IN IF d = 0 THEN [raised |-> TRUE]
       ELSE [raised |-> FALSE, num |-> num, den |-> den,
             x |-> [j \in 1..3 |->
                       (2 * num[j] * SolveUnit + den) \div (2 * den)]]

\* the inputs: two channel cells 0, 1 and two tip cells 2, 3
EqChannel == <<0, 1>>
EqTip == <<2, 3>>
EqC == [a \in 0..3, b \in 0..3 |-> IF a = b THEN 8 ELSE -1]
EqVolWeights == [c \in 0..3 |-> IF c = 0 THEN 1 ELSE IF c = 1 THEN 2 ELSE 4]
EqSymElements == [c \in 0..3 |-> IF c = 0 THEN 1 ELSE IF c = 1 THEN 0 ELSE c]
\* dwTip, an argument of the symmetric variant only: the change of the width
\* of the tip cells passed in, or that of every cell of the tip, each cell
\* passed in standing for vol_weights cells
EqInputs ==
    LET base ==
            [symmetric : BOOLEAN,
             w : {f \in [0..3 -> 0..3] :
                     f[0] >= 2 /\ f[1] >= 2 /\ f[2] <= 1 /\ f[3] <= 1},
             wTip : [1..2 -> {1, 2}],
             sigma_o : {[c \in 0..3 |-> s] : s \in {0, 3}},
             dt : {1, 2},
             Q : {<<4>>, <<4, 4>>},
             ElemArea : {2, 4},
             lkOff : {<<0, 0>>, <<1, 0>>},
             dwTip : {"cells passed in", "every cell"}]
        change(b, n) == b.wTip[n] - b.w[EqSymElements[EqTip[n]]]
        every(b) ==
            [m \in 1..EqVolWeights[EqTip[1]] |-> change(b, 1)]
                \o [m \in 1..EqVolWeights[EqTip[2]] |-> change(b, 2)]
    IN {[b EXCEPT !.dwTip = IF @ = "every cell" THEN every(b)
                            ELSE <<change(b, 1), change(b, 2)>>] :
            b \in base}

InitEq ==
    /\ AtRest({"vc_implicit"}, "run")
    /\ pc = "eq_make"
    /\ \E in \in EqInputs : loc = [in |-> in, A |-> <<>>, S |-> <<>>,
                                    sol |-> <<>>]

EqMake ==
    /\ pc = "eq_make"
    /\ LET in == loc.in
           sys == IF in.symmetric
                  THEN MakeEquationSystem_volumeControl_symmetric(
                            in.w, in.wTip, EqChannel, EqTip, EqC, in.dt, in.Q,
                            in.sigma_o, in.ElemArea, in.lkOff, EqVolWeights,
                            EqSymElements, in.dwTip)
                  ELSE MakeEquationSystem_volumeControl(
                            in.w, in.wTip, EqChannel, EqTip, in.sigma_o, EqC,
                            in.dt, in.Q, in.ElemArea, in.lkOff)
       IN loc' = [loc EXCEPT !.A = sys.A, !.S = sys.S]
    /\ pc' = "eq_solve"
    /\ UNCHANGED <<cfg, Fr, C, timeStep_limit, exc>> /\ UNCHANGED ctrl

EqSolve ==
    /\ pc = "eq_solve"
    /\ LET sol == np_linalg_solve(loc.A, loc.S)
       IN IF sol.raised
          THEN /\ loc' = loc
               /\ pc' = "raised"
               /\ exc' = "LinAlgError"
          ELSE /\ loc' = [loc EXCEPT !.sol = sol]
               /\ pc' = "eq_done"
               /\ exc' = exc
    /\ UNCHANGED <<cfg, Fr, C, timeStep_limit>> /\ UNCHANGED ctrl

NextEq == EqMake \/ EqSolve
SpecEq == InitEq /\ [][NextEq]_vars

\* the multiplicity of a channel cell in the symmetric variant, 1 otherwise
EqWeight(j) == IF loc.in.symmetric THEN EqVolWeights[EqChannel[j]] ELSE 1

\* the pressure has the coefficient -1 in every elasticity row and 0 in the
\* last row, where a channel increment has its weight
EqRowsAsClaimed ==
    LET n == Len(EqChannel)
    IN pc \in {"eq_solve", "eq_done"} =>
            /\ \A r \in 1..n : loc.A[r][n + 1] = -1
            /\ loc.A[n + 1][n + 1] = 0
            /\ \A j \in 1..n : loc.A[n + 1][j] = EqWeight(j)

\* the volume injected less tipChange less the leak off
EqVolume(tipChange) ==
    (SumSeq(loc.in.Q) * loc.in.dt) \div loc.in.ElemArea - tipChange
        - SumSeq(loc.in.lkOff)

\* C19 (as stated): in both variants the solution of the assembled system
\* satisfies the volume balance exactly, with the change of the tip widths
\* sum(wTip) - sum(w_n[EltTip]) of the tip cells passed in.
C19_BalanceWithTipWidths ==
    LET in == loc.in
        n == Len(EqChannel)
        tipCells == IF in.symmetric THEN Take(EqSymElements, EqTip) ELSE EqTip
        tipChange == SumSeq(in.wTip) - SumSeq(Take(in.w, tipCells))
    IN /\ EqRowsAsClaimed
       /\ pc = "eq_done" =>
            SumSeq([j \in 1..n |-> EqWeight(j) * loc.sol.num[j]])
                = EqVolume(tipChange) * loc.sol.den

\* C19 (amended): the rows are as stated. The solution of the system
\* satisfies the volume balance exactly, with the change of the tip widths
\* sum(wTip) - sum(w_n[EltTip]) in MakeEquationSystem_volumeControl and with
\* sum(dwTip), the sum of an argument the caller is free to pass, in the
\* symmetric variant. The result of the solve, rounded in its last digit,
\* misses the balance by at most half a unit of that digit for every unit of
\* weight.
C19_BalanceWithTipArgument ==
    LET in == loc.in
        n == Len(EqChannel)
        tipChange == IF in.symmetric THEN SumSeq(in.dwTip)
                     ELSE SumSeq(in.wTip) - SumSeq(Take(in.w, EqTip))
        miss == SumSeq([j \in 1..n |-> EqWeight(j) * loc.sol.x[j]])
                    - EqVolume(tipChange) * SolveUnit
    IN /\ EqRowsAsClaimed
       /\ pc = "eq_done" =>
            /\ SumSeq([j \in 1..n |-> EqWeight(j) * loc.sol.num[j]])
                    = EqVolume(tipChange) * loc.sol.den
            /\ 2 * Abs(miss) <= SumSeq([j \in 1..n |-> EqWeight(j)])

\* a system of the symmetric variant, with the change of every cell of the
\* tip as dwTip, was solved, and its solution is not a whole number
C19_Witness ==
    /\ pc = "eq_done"
    /\ loc.in.symmetric
    /\ SumSeq(loc.in.dwTip)
            # SumSeq(loc.in.wTip) - SumSeq(Take(loc.in.w, EqTip))
    /\ \E j \in 1..Len(EqChannel) : loc.sol.num[j] % loc.sol.den # 0

\* ----------------------------------------------- CartesianMesh.Neighbors
OddSizeKept(n) == n
\* CartesianMesh.__init__: an even number of elements is raised by one
OddSize(n) == IF n % 2 = 0 THEN n + 1 ELSE n

\* <<left, right, bottom, up>> without the test for the boundary
NeighborsWithoutBoundary(elem, nxElts, nyElts) ==
    <<elem - 1, elem + 1, elem - nxElts, elem + nxElts>>
\* CartesianMesh.Neighbors and Utility.Neighbors, the same text
CartesianMesh_Neighbors(elem, nxElts, nyElts) ==
    LET row == elem \div nxElts
        col == elem % nxElts
    IN << IF col = 0 THEN elem ELSE row * nxElts + col - 1,
          IF col = nxElts - 1 THEN elem ELSE row * nxElts + col + 1,
          IF row = 0 THEN elem ELSE (row - 1) * nxElts + col,
          IF row = nyElts - 1 THEN elem ELSE (row + 1) * nxElts + col >>

\* the columns (rows) whose centre is nearer to the origin than hx / 2: the
\* centre of column c is at -Lx + c hx with hx = 2 Lx / (n - 1), so
\* abs(x) < hx / 2 is abs(2 c - (n - 1)) < 1
\* CenterElts is np.intersect1d of the two np.where
CenterEltsOf(nxElts, nyElts) ==
    LET CenterColumns(n) == {c \in 0..(n - 1) : Abs(2 * c - (n - 1)) < 1}
    IN {r * nxElts + c : c \in CenterColumns(nxElts),
                         r \in CenterColumns(nyElts)}

\* the numbers of elements asked for, and the steps walked over NeiElements
MaxMeshSize == 4
MaxMoves == 2

InitMesh ==
    /\ AtRest({"vc_implicit"}, "run")
    /\ pc = "mesh_init"
    /\ \E nxAsked \in 1..MaxMeshSize, nyAsked \in 1..MaxMeshSize :
            loc = [nx |-> nxAsked, ny |-> nyAsked, NeiElements |-> <<>>,
                   elem |-> 0, from |-> 0, dir |-> 0, moves |-> 0,
                   asked |-> <<nxAsked, nyAsked>>, NumberOfElts |-> 0,
                   CenterElts |-> {}]

\* CartesianMesh.__init__: nx, ny, hx and hy (a division by nx - 1, ny - 1),
\* NumberOfElts, the table NeiElements and CenterElts
MeshInit ==
    /\ pc = "mesh_init"
    /\ LET nxElts == OddSize(loc.nx)
           nyElts == OddSize(loc.ny)
           centre == CenterEltsOf(nxElts, nyElts)
       IN IF nxElts = 1 \/ nyElts = 1
          THEN /\ loc' = [loc EXCEPT !.nx = nxElts, !.ny = nyElts]
               /\ pc' = "raised"
               /\ exc' = "ZeroDivisionError"
          ELSE IF Cardinality(centre) # 1
          THEN /\ loc' = [loc EXCEPT !.nx = nxElts, !.ny = nyElts,
                                     !.NumberOfElts = nxElts * nyElts,
                                     !.CenterElts = centre]
               /\ pc' = "raised"
               /\ exc' = "ValueError"
          ELSE /\ \E start \in 0..(nxElts * nyElts - 1) :
                    loc' = [loc EXCEPT
                              !.nx = nxElts, !.ny = nyElts,
                              !.NumberOfElts = nxElts * nyElts,
                              !.NeiElements =
                                  [c \in 0..(nxElts * nyElts - 1) |->
                                      CartesianMesh_Neighbors(c, nxElts,
                                                              nyElts)],
                              !.CenterElts = centre,
                              !.elem = start, !.from = start]
               /\ pc' = "mesh_ready"
               /\ exc' = exc
    /\ UNCHANGED <<cfg, Fr, C, timeStep_limit>> /\ UNCHANGED ctrl

\* a caller steps to a neighbour: mesh.NeiElements[elem, dir]
MeshMove ==
    /\ pc = "mesh_ready"
    /\ loc.moves < MaxMoves
    /\ \E d \in 1..4 :
            loc' = [loc EXCEPT !.elem = loc.NeiElements[loc.elem][d],
                               !.from = loc.elem, !.dir = d,
                               !.moves = @ + 1]
    /\ pc' = pc
    /\ UNCHANGED <<cfg, Fr, C, timeStep_limit, exc>> /\ UNCHANGED ctrl

NextMesh == MeshInit \/ MeshMove
SpecMesh == InitMesh /\ [][NextMesh]_vars

\* column and row of a cell of the mesh in the state
MeshCol(c) == c % loc.nx
MeshRow(c) == c \div loc.nx

\* C20: for every cell the four neighbours are cells of the mesh; on the
\* boundary of a direction the neighbour is the cell itself, otherwise it is
\* the cell next to it in that direction, so right(left(i)) = i and
\* top(bottom(i)) = i off the left and the bottom boundary.
C20_NeighboursValidAndAdjacent ==
    pc = "mesh_ready" =>
        /\ loc.elem \in DOMAIN loc.NeiElements
        /\ \A c \in DOMAIN loc.NeiElements :
            LET nb == loc.NeiElements[c]
                left == nb[1]
                right == nb[2]
                bottom == nb[3]
                top == nb[4]
                shifted(n, dcol, drow) ==
                    /\ MeshCol(n) = MeshCol(c) + dcol
                    /\ MeshRow(n) = MeshRow(c) + drow
            IN /\ \A d \in 1..4 : nb[d] \in DOMAIN loc.NeiElements
               /\ IF MeshCol(c) = 0 THEN left = c ELSE shifted(left, -1, 0)
               /\ IF MeshCol(c) = loc.nx - 1 THEN right = c
                  ELSE shifted(right, 1, 0)
               /\ IF MeshRow(c) = 0 THEN bottom = c
                  ELSE shifted(bottom, 0, -1)
               /\ IF MeshRow(c) = loc.ny - 1 THEN top = c
                  ELSE shifted(top, 0, 1)
               /\ MeshCol(c) # 0 => loc.NeiElements[left][2] = c
               /\ MeshRow(c) # 0 => loc.NeiElements[bottom][4] = c

\* on the mesh of 5 by 3 cells a walk has stepped right from a cell off the
\* right boundary, and the left neighbour of the cell it is on is the cell
\* it came from
C20_Witness ==
    /\ pc = "mesh_ready"
    /\ loc.moves = 2
    /\ loc.dir = 2
    /\ loc.from # loc.elem
    /\ loc.NeiElements[loc.elem][1] = loc.from
    /\ loc.nx = 5 /\ loc.ny = 3

\* C21: a mesh built from positive numbers of cells has odd nx and ny (an
\* even number asked for is raised by one, an odd one kept), NumberOfElts is
\* nx ny, and CenterElts holds exactly one cell, the middle cell of the
\* middle row; the construction never fails for want of a centre cell.
C21_OddSizesAndOneCentre ==
    /\ pc = "raised" => exc = "ZeroDivisionError" /\ 1 \in Range(loc.asked)
    /\ pc = "mesh_ready" =>
        /\ loc.nx % 2 = 1 /\ loc.ny % 2 = 1
        /\ loc.nx = loc.asked[1] + (IF loc.asked[1] % 2 = 0 THEN 1 ELSE 0)
        /\ loc.ny = loc.asked[2] + (IF loc.asked[2] % 2 = 0 THEN 1 ELSE 0)
        /\ loc.NumberOfElts = loc.nx * loc.ny
        /\ Cardinality(DOMAIN loc.NeiElements) = loc.NumberOfElts
        /\ loc.CenterElts
                = {((loc.ny - 1) \div 2) * loc.nx + (loc.nx - 1) \div 2}

\* a mesh asked for with 4 by 2 cells was built with 5 by 3
C21_Witness ==
    /\ pc = "mesh_ready"
    /\ loc.asked = <<4, 2>>
    /\ loc.nx = 5 /\ loc.ny = 3
    /\ loc.CenterElts = {7}

\* --------------------------------------------------------------- Symmetry
\* get_symetric_elements for one element: the element and its images about
\* the x axis, the y axis and the origin
get_symetric_elements(nxElts, nyElts, elem) ==
    LET i_x == elem % nxElts
        i_y == elem \div nxElts
        symetric_x == nxElts - i_x - 1
        symetric_y == nyElts - i_y - 1
    IN <<i_y * nxElts + i_x, symetric_y * nxElts + i_x,
         i_y * nxElts + symetric_x, symetric_y * nxElts + symetric_x>>

\* CenterCoor > h / 2 and abs(CenterCoor) < 1e-12 for column (row) c of n:
\* the centre is at (2 c - (n - 1)) h / 2; the centre of the middle column
\* is the mean of computed vertices and is zero up to rounding, so the second
\* test has the outcome onAxis there

\* get_active_symmetric_elements: elements, boundary_x, boundary_y and all
get_active_symmetric_elements(nxElts, nyElts, onAxisX, onAxisY) ==
    LET Positive(c, n) == 2 * c - (n - 1) > 1
        NearZero(c, n, onAxis) == 2 * c - (n - 1) = 0 /\ onAxis
        cells == 0..(nxElts * nyElts - 1)
        x(c) == c % nxElts
        y(c) == c \div nxElts
        elements == SortedSeq({c \in cells : Positive(x(c), nxElts)
                                              /\ Positive(y(c), nyElts)})
        boundary_x == SortedSeq({c \in cells :
                                    NearZero(y(c), nyElts, onAxisY)
                                    /\ Positive(x(c), nxElts)})
        boundary_y == SortedSeq({c \in cells :
                                    NearZero(x(c), nxElts, onAxisX)
                                    /\ Positive(y(c), nyElts)})
    IN [all |-> elements \o boundary_x \o boundary_y
                    \o SortedSeq(CenterEltsOf(nxElts, nyElts)),
        elements |-> elements, boundary_x |-> boundary_x,
        boundary_y |-> boundary_y]

\* corresponding_elements_in_symmetric: np.empty, then the assignments for
\* elements, boundary_x, boundary_y and the centre, the later over the earlier;
\* an entry never assigned keeps what np.empty left there
corresponding_elements_in_symmetric(nxElts, nyElts, act, left) ==
    LET images(e) == Range(get_symetric_elements(nxElts, nyElts, e))
        hit(seq, c) == {n \in 1..Len(seq) : c \in images(seq[n])}
        last(S) == CHOOSE n \in S : \A m \in S : m <= n
        ne == Len(act.elements)
        nbx == Len(act.boundary_x)
        nby == Len(act.boundary_y)
    IN [c \in 0..(nxElts * nyElts - 1) |->
          IF c \in CenterEltsOf(nxElts, nyElts) THEN ne + nbx + nby
          ELSE IF hit(act.boundary_y, c) # {}
          THEN last(hit(act.boundary_y, c)) - 1 + ne + nbx
          ELSE IF hit(act.boundary_x, c) # {}
          THEN last(hit(act.boundary_x, c)) - 1 + ne
          ELSE IF hit(act.elements, c) # {}
          THEN last(hit(act.elements, c)) - 1
          ELSE left]

\* vol_weights: 4, then 2 from len(elements) up to the last, then 1 for the
\* last; position n of the sequence is index n - 1
vol_weights_of(act) ==
    [n \in 1..Len(act.all) |->
        IF n = Len(act.all) THEN 1
        ELSE IF n > Len(act.elements) THEN 2 ELSE 4]

\* symmetric_elasticity_matrix_from_full: the row of an active element holds,
\* for a column of elements the sum over the four images, for a column of
\* boundary_x the images 0 and 3, of boundary_y the images 0 and 1, and for
\* the last column the centre element
symmetric_elasticity_matrix_from_full(Cmat, nxElts, nyElts, act) ==
    LET indx_boun_x == Len(act.elements)
        indx_boun_y == indx_boun_x + Len(act.boundary_x)
        indx_cntr_elm == indx_boun_y + Len(act.boundary_y)
        no_elements == indx_cntr_elm + 1
        sym(e) == get_symetric_elements(nxElts, nyElts, e)
        centre == CHOOSE c \in CenterEltsOf(nxElts, nyElts) : TRUE
        entry(r, b) ==
            IF b <= indx_boun_x
            THEN LET im == sym(act.elements[b])
                 IN Cmat[r, im[1]] + Cmat[r, im[2]] + Cmat[r, im[3]]
                        + Cmat[r, im[4]]
            ELSE IF b <= indx_boun_y
            THEN LET im == sym(act.boundary_x[b - indx_boun_x])
                 IN Cmat[r, im[1]] + Cmat[r, im[4]]
            ELSE IF b <= indx_cntr_elm
            THEN LET im == sym(act.boundary_y[b - indx_boun_y])
                 IN Cmat[r, im[1]] + Cmat[r, im[2]]
            ELSE Cmat[r, centre]
    IN [a \in 1..no_elements |->
            [b \in 1..no_elements |-> entry(act.all[a], b)]]

\* full matrices and widths that are the same in the four images of a cell
FullMatrix(k, cells) ==
    [a \in cells, b \in cells |->
        IF k = 1 THEN ((7 * a + 3 * b) % 11) - 5
        ELSE IF a = b THEN 40 ELSE -(1 + ((a + 2 * b) % 4))]
MirroredWidth(k, nxElts, nyElts) ==
    [c \in 0..(nxElts * nyElts - 1) |->
        LET dx == Abs(2 * (c % nxElts) - (nxElts - 1)) \div 2
            dy == Abs(2 * (c \div nxElts) - (nyElts - 1)) \div 2
        IN IF k = 1 THEN 1 + dx + 2 * dy ELSE (3 * dx + dy * dy + dx * dy) % 4]

\* CartesianMesh.__init__ with symmetric = True
SymInit ==
    /\ pc = "sym_init"
    /\ LET nxElts == OddSize(loc.nx)
           nyElts == OddSize(loc.ny)
           act == get_active_symmetric_elements(nxElts, nyElts, loc.onAxisX,
                                                loc.onAxisY)
       IN loc' = [loc EXCEPT
                    !.nx = nxElts, !.ny = nyElts,
                    !.NumberOfElts = nxElts * nyElts,
                    !.act = act,
                    !.corr = corresponding_elements_in_symmetric(
                                nxElts, nyElts, act, loc.left),
                    !.symmetric_elmnts =
                        [c \in 0..(nxElts * nyElts - 1) |->
                            get_symetric_elements(nxElts, nyElts, c)],
                    !.vol_weights = vol_weights_of(act)]
    /\ pc' = "sym_ready"
    /\ UNCHANGED <<cfg, Fr, C, timeStep_limit, exc>> /\ UNCHANGED ctrl

\* the elasticity matrix of the symmetric mesh from a full matrix
SymMatrix ==
    /\ pc = "sym_ready"
    /\ \E k \in 1..2, kw \in 1..2 :
        LET Cmat == FullMatrix(k, DOMAIN loc.corr)
        IN loc' = [loc EXCEPT
                     !.C_full = Cmat,
                     !.w = MirroredWidth(kw, loc.nx, loc.ny),
                     !.C_sym = symmetric_elasticity_matrix_from_full(
                                    Cmat, loc.nx, loc.ny, loc.act)]
    /\ pc' = "sym_matrix"
    /\ UNCHANGED <<cfg, Fr, C, timeStep_limit, exc>> /\ UNCHANGED ctrl

\* C22: on a symmetric mesh every cell has the index of one active element,
\* which is one of its mirror images; the four mirror images of a cell have
\* the same index; the weight of an active element is the number of cells
\* with its index, so the weights add up to NumberOfElts.
C22_CorrespondenceAndWeights ==
    pc = "sym_ready" =>
        LET cells == DOMAIN loc.corr
            active == 0..(Len(loc.act.all) - 1)
        IN /\ \A c \in cells :
                /\ loc.corr[c] \in active
                /\ loc.act.all[loc.corr[c] + 1]
                        \in Range(loc.symmetric_elmnts[c])
                /\ \A m \in Range(loc.symmetric_elmnts[c]) :
                        loc.corr[m] = loc.corr[c]
           /\ \A a \in active :
                loc.vol_weights[a + 1]
                    = Cardinality({c \in cells : loc.corr[c] = a})
           /\ SumSeq(loc.vol_weights) = loc.NumberOfElts

\* C23: for a width that is the same in the mirror images of every cell, the
\* reduced matrix applied to the widths of the active elements gives, for
\* every active element, its row of the product of the full matrix and the
\* width; every reduced entry is the sum of the full entries over the
\* distinct mirror images of the element of the column.
C23_ReducedProductEqualsFull ==
    pc = "sym_matrix" =>
        LET cells == DOMAIN loc.corr
            all == loc.act.all
        IN /\ \A c \in cells : \A m \in Range(loc.symmetric_elmnts[c]) :
                    loc.w[m] = loc.w[c]
           /\ \A a \in 1..Len(all) :
                /\ SumSeq([b \in 1..Len(all) |->
                                loc.C_sym[a][b] * loc.w[all[b]]])
                        = SumOver(cells, [c \in cells |->
                                            loc.C_full[all[a], c] * loc.w[c]])
                /\ \A b \in 1..Len(all) :
                        loc.C_sym[a][b]
                            = SumOver(Range(loc.symmetric_elmnts[all[b]]),
                                      [c \in cells |-> loc.C_full[all[a], c]])

\* ------------------------------------------- finiteDiff_operator_laminar
\* finiteDiff_operator_laminar. The entries of the row of elem are assigned
\* in this order: the diagonal, then the columns of the left, right, bottom
\* and top neighbour. An entry of the matrix holds what was assigned to it
\* last, and zero when nothing was.
finiteDiff_operator_laminar(w, EltCrack, muPrime, nxElts, nyElts, dx, dy, InCrack) ==
    LET cube(a) == a * a * a
        nei(elem) == CartesianMesh_Neighbors(elem, nxElts, nyElts)
        wEdge(elem, d) ==
            ((w[elem] + w[nei(elem)[d]]) \div 2) * InCrack[nei(elem)[d]]
        cond(elem, d, h) ==
            (cube(wEdge(elem, d)) \div (h * h)) \div muPrime[elem]
        LaminarAssignments(elem) ==
            <<[col |-> elem,
               val |-> -(((cube(wEdge(elem, 1)) + cube(wEdge(elem, 2)))
                            \div (dx * dx)) \div muPrime[elem])
                       - (((cube(wEdge(elem, 3)) + cube(wEdge(elem, 4)))
                            \div (dy * dy)) \div muPrime[elem])],
              [col |-> nei(elem)[1], val |-> cond(elem, 1, dx)],
              [col |-> nei(elem)[2], val |-> cond(elem, 2, dx)],
              [col |-> nei(elem)[3], val |-> cond(elem, 3, dy)],
              [col |-> nei(elem)[4], val |-> cond(elem, 4, dy)]>>
    IN [a \in DOMAIN w, b \in DOMAIN w |->
          IF a \notin EltCrack THEN 0
          ELSE LET asg == LaminarAssignments(a)
                   at == {n \in 1..5 : asg[n].col = b}
               IN IF at = {} THEN 0
                  ELSE asg[CHOOSE n \in at : \A m \in at : m <= n].val]

\* a mesh of 3 by 3 cells with hx = 1 and hy = 2
FlowMake ==
    /\ pc = "flow_make"
    /\ loc' = [loc EXCEPT !.FinDiffOprtr =
                    finiteDiff_operator_laminar(
                        loc.w, loc.EltCrack, loc.muPrime, 3, 3, 1, 2,
                        [c \in 0..8 |-> IF c \in loc.EltCrack THEN 1 ELSE 0])]
    /\ pc' = "flow_done"
    /\ UNCHANGED <<cfg, Fr, C, timeStep_limit, exc>> /\ UNCHANGED ctrl

\* the conductivity of the edge of cell c in direction d: the cube of the mean
\* width over the squared spacing and the viscosity, zero when the neighbour
\* is outside the crack
EdgeConductivity(c, d) ==
    LET n == CartesianMesh_Neighbors(c, 3, 3)[d]
        wEdge == IF n \in loc.EltCrack THEN (loc.w[c] + loc.w[n]) \div 2
                 ELSE 0
        h == IF d <= 2 THEN 1 ELSE 2
    IN ((wEdge * wEdge * wEdge) \div (h * h)) \div loc.muPrime[c]

\* C24: in the row of every crack cell, also of a cell on the boundary of the
\* grid, the entry of each neighbour is the conductivity of the edge towards
\* it, the diagonal entry is minus the sum of the four edge conductivities,
\* and the row adds up to zero.
C24_RowsSumToZero ==
    pc = "flow_done" =>
        \A c \in loc.EltCrack :
            LET nei == CartesianMesh_Neighbors(c, 3, 3)
            IN /\ \A d \in 1..4 :
                    nei[d] # c =>
                        loc.FinDiffOprtr[c, nei[d]] = EdgeConductivity(c, d)
               /\ loc.FinDiffOprtr[c, c]
                    = -(EdgeConductivity(c, 1) + EdgeConductivity(c, 2)
                        + EdgeConductivity(c, 3) + EdgeConductivity(c, 4))
               /\ SumOver(0..8, [b \in 0..8 |-> loc.FinDiffOprtr[c, b]]) = 0

\* ------------------------------------------------------- check_covergance
\* np.linalg.norm(abs(a - b) / abs(b)) <= tol over the positions idx (from 0)
\* of the vectors, tol = tolNum / tolDen: with d the product of the abs(b),
\* the sum of the squares of abs(a - b) d / abs(b) is at most (tol d) squared.
\* A zero b gives a quotient inf or nan, a norm inf or nan, and a comparison
\* that is False.
NormWithin(a, b, idx, tolNum, tolDen) ==
    LET n == Len(idx)
        den == [j \in 1..n |-> Abs(b[idx[j] + 1])]
        num == [j \in 1..n |-> Abs(a[idx[j] + 1] - b[idx[j] + 1])]
        RECURSIVE prod(_)
        prod(j) == IF j = 0 THEN 1 ELSE den[j] * prod(j - 1)
        d == prod(n)
    IN /\ \A j \in 1..n : den[j] # 0
       /\ tolDen * tolDen
            * SumSeq([j \in 1..n |->
                        (num[j] * (d \div den[j])) * (num[j] * (d \div den[j]))])
                <= tolNum * tolNum * d * d

\* check_covergance: the positions of the zeros are those of the whole vector
\* solkm1, and they are deleted from the width entries solk[indices[0]]. A
\* position beyond the width entries is ignored by np.delete of numpy before
\* 1.19 and raises IndexError from 1.19 on (outOfBounds). np_delete(arr, obj)
\* gives the entries of arr at the positions (from 0) that are not in obj;
\* kept holds the positions of the vector that enter the width norm.
check_covergance(solk, solkm1, indices, tolNum, tolDen, outOfBounds) ==
    LET np_delete(arr, obj) ==
            LET keep == SortedSeq({j \in 1..Len(arr) : (j - 1) \notin obj})
            IN [j \in 1..Len(keep) |-> arr[keep[j]]]
        solkm1_is_0 == {j \in 0..(Len(solkm1) - 1) : solkm1[j + 1] = 0}
        beyond == {j \in solkm1_is_0 : j >= Len(indices[1])}
        kept == IF solkm1_is_0 # {} THEN np_delete(indices[1], solkm1_is_0)
                ELSE indices[1]
        norm_w == NormWithin(solk, solkm1, kept, tolNum, tolDen)
        norm_p == NormWithin(solk, solkm1, indices[2], tolNum, tolDen)
        norm_tr == IF Len(indices[3]) > 0
                   THEN NormWithin(solk, solkm1, indices[3], tolNum, tolDen)
                   ELSE TRUE
    IN IF beyond # {} /\ outOfBounds = "IndexError"
       THEN [exc |-> "IndexError", converged |-> FALSE, kept |-> <<>>]
       ELSE [exc |-> "", converged |-> norm_w /\ norm_p /\ norm_tr,
             kept |-> kept]

\* the indices as the systems of the viscous solver return them: n_ch channel
\* widths first, then n_act active entries, then n_tip tip entries;
\* indices = [ch_indxs, tip_indxs, act_indxs]
ConvCheck ==
    /\ pc = "conv_check"
    /\ LET r == check_covergance(loc.solk, loc.solkm1, loc.indices, 1, 2,
                                 loc.outOfBounds)
       IN /\ loc' = [loc EXCEPT !.converged = r.converged, !.kept = r.kept]
          /\ exc' = r.exc
          /\ pc' = IF r.exc = "" THEN "conv_done" ELSE "conv_raised"
    /\ UNCHANGED <<cfg, Fr, C, timeStep_limit>> /\ UNCHANGED ctrl

\* Picard_Newton called with guess, Tol and maxitr
PicardSolve ==
    /\ pc = "picard"
    /\ loc' = [loc EXCEPT !.sol = Picard_Newton(1, loc.maxitr, loc.convergeAt,
                                                loc.singular, loc.velNeed)]
    /\ pc' = "picard_done"
    /\ UNCHANGED <<cfg, Fr, C, timeStep_limit, exc>> /\ UNCHANGED ctrl

\* the inputs of the functions taken alone. Symmetric mesh: the numbers of
\* cells asked for, whether the centre of the middle column and of the middle
\* row passes the test of the axis, and what np.empty left in memory. Laminar
\* operator: a crack that holds the centre cell of the 3 by 3 mesh and widths
\* that are multiples of 4. Convergence test: two channel widths, at most one
\* active entry and one tip entry, tol = 1 / 2. Picard_Newton: the limit of
\* the iterations, the first pass whose iterate meets the tolerance, whether
\* the matrix is singular, and the moves the velocity bracket needs.
InitFunctions ==
    /\ AtRest({"viscous"}, "run")
    /\ \/ /\ pc = "sym_init"
          /\ \E nxAsked \in 2..MaxMeshSize, nyAsked \in 2..MaxMeshSize,
                onAxisX \in BOOLEAN, onAxisY \in BOOLEAN, left \in {-1, 0, 7} :
                loc = [nx |-> nxAsked, ny |-> nyAsked, onAxisX |-> onAxisX,
                       onAxisY |-> onAxisY, left |-> left, NumberOfElts |-> 0,
                       act |-> <<>>, corr |-> <<>>, vol_weights |-> <<>>,
                       symmetric_elmnts |-> <<>>, C_full |-> <<>>, w |-> <<>>,
                       C_sym |-> <<>>]
       \/ /\ pc = "flow_make"
          /\ \E EltCrack \in {S \in SUBSET (0..8) : 4 \in S}, k \in 1..2,
                mu \in 1..2 :
                loc = [EltCrack |-> EltCrack,
                       w |-> [c \in 0..8 |->
                                IF c \notin EltCrack THEN 0
                                ELSE IF k = 1 THEN 4 + 4 * (c % 3)
                                ELSE 8 + 4 * ((c * c) % 5)],
                       muPrime |-> [c \in 0..8 |-> mu],
                       FinDiffOprtr |-> <<>>]
       \/ /\ pc = "conv_check"
          /\ \E n_act \in 0..1, outOfBounds \in {"ignored", "IndexError"} :
                \E solk \in [1..(3 + n_act) -> {0, 4, 5}],
                   solkm1 \in [1..(3 + n_act) -> {0, 4}] :
                    loc = [solk |-> solk, solkm1 |-> solkm1,
                           indices |-> <<<<0, 1>>, <<2 + n_act>>,
                                         [j \in 1..n_act |-> 2]>>,
                           outOfBounds |-> outOfBounds,
                           converged |-> FALSE, kept |-> <<>>]
       \/ /\ pc = "picard"
          /\ \E maxitr \in 1..(maxSolverItr + 1),
                convergeAt \in 1..(maxSolverItr + 1), singular \in BOOLEAN,
                velNeed \in VelocityBracketNeeds :
                loc = [maxitr |-> maxitr, convergeAt |-> convergeAt,
                       singular |-> singular, velNeed |-> velNeed,
                       sol |-> None]

NextFunctions ==
    SymInit \/ SymMatrix \/ FlowMake \/ ConvCheck \/ PicardSolve
SpecFunctions == InitFunctions /\ [][NextFunctions]_vars

\* C26: check_covergance reports convergence exactly when the width, the
\* pressure and the traction norm are all at most tol, and the entries left
\* out of the width norm are exactly the width unknowns whose previous
\* iterate is zero, wherever else the previous solution has zeros.
C26_ConvergenceByThreeNorms ==
    pc \in {"conv_done", "conv_raised"} =>
        LET widths == {j \in Range(loc.indices[1]) : loc.solkm1[j + 1] # 0}
            norm(idx) == NormWithin(loc.solk, loc.solkm1, idx, 1, 2)
        IN /\ pc = "conv_done"
           /\ Range(loc.kept) = widths
           /\ loc.converged
                <=> /\ norm(SortedSeq(widths))
                    /\ norm(loc.indices[2])
                    /\ norm(loc.indices[3])

\* ------------------------------------------------------ advance_time_step
\* one step of advance_time_step seen from its caller: the counter of the
\* reattempt loop starts at 0 and goes up by one with every failed attempt,
\* the attempt function is called only below maxReattempts, status 1 is
\* returned at once with the fracture of the attempt, and every other return
\* hands back the status of the last attempt and no fracture
AdvanceStepAsClaimed ==
    /\ pc = "advance" => loc'.att = 0
    /\ pc = "reattempt" /\ pc' \notin {"reattempt", "handle"} =>
            loc.att < maxReattempts /\ loc'.att = loc.att
    /\ pc = "attempt_done" =>
        /\ loc.att < maxReattempts
        /\ loc.exitstatus = 1 =>
            /\ pc' = "handle" /\ status' = 1
            /\ Fr_n_pls1' = loc.Fr_k /\ Fr_n_pls1' # None
        /\ pc' = "reattempt" => loc'.att = loc.att + 1
    /\ pc \in {"attempt_done", "reattempt"} /\ pc' = "handle" =>
        /\ status' = loc.exitstatus
        /\ status' # 1 => Fr_n_pls1' = None
        /\ pc = "reattempt" => loc.att = maxReattempts

\* C27: with maxReattempts >= 1, advance_time_step calls the attempt
\* function at most maxReattempts times, returns at once with the new
\* fracture on the first status 1, and otherwise returns the status of the
\* last attempt and no fracture.
C27_AtMostMaxReattempts == [][AdvanceStepAsClaimed]_vars

\* the second attempt of a step was successful
C27_Witness ==
    /\ pc = "attempt_done"
    /\ loc.att = 1
    /\ loc.exitstatus = 1
    /\ loc.Fr_k # None

\* C28: Picard_Newton returns the converged iterate when the convergence
\* test passes at a pass it performs (passes 1 to maxitr - 1), the last of
\* them included, and returns the vector of NaN only when no performed pass
\* met the test or the matrix was singular.
C28_ConvergedIterateReturned ==
    pc = "picard_done" =>
        LET passed == loc.convergeAt < loc.maxitr
        IN /\ passed /\ ~loc.singular /\ loc.velNeed = 0 =>
                loc.sol.kind = "sol"
           /\ loc.sol.kind = "nan" => ~passed \/ loc.singular

\* ---------------------------------------------------------- tip correction
\* the elasticity matrix of the start after n remeshings
RECURSIVE HalvedTimes(_)
HalvedTimes(n) == IF n = 0 THEN C0 ELSE Halve(HalvedTimes(n - 1))

\* a step that assembles and solves a coupled system (a step from a position
\* of a solve that does not return status 4 or 8 or raise ValueError, which
\* come before the assembly) finds C with the tip correction on the diagonal
\* entries of the tip cells of the footprint and equal to the uncorrected
\* matrix elsewhere
AssembledWithTipCorrection(places) ==
    LET same == pc \in {"vc_same_solve", "vf_same_solve"}
        early == \/ pc' = "attempt_done" /\ loc'.exitstatus \in {4, 8}
                 \/ pc' = "raised" /\ exc' = "ValueError"
        tips == IF same THEN Fr.EltTip ELSE loc.EltsTipNew
        fills == IF same THEN Fr.FillF ELSE loc.FillFrac_k
    IN pc \in places /\ pc' # pc /\ ~early =>
        \E n \in 0..MaxRemesh :
            /\ C = ApplyTipCorrection(HalvedTimes(n), tips, fills)
            /\ \A e \in Range(tips) : C[e, e] # HalvedTimes(n)[e, e]

\* C25: whenever a coupled system is assembled for a footprint with partly
\* filled tip cells, in the same-footprint and the extended-footprint solves
\* of the volume control and the viscous fluid mode and in the step with the
\* explicit front, the tip correction is in effect on the diagonal entries
\* of C of those tip cells, and they are the only entries of C that differ
\* from the uncorrected matrix.
C25_TipCorrectionInEverySolve ==
    [][AssembledWithTipCorrection({"vc_same_solve", "vf_same_solve",
                                   "vc_ext_solve", "vf_ext_solve",
                                   "ex_tip"})]_vars

\* C29: at every call of advance_time_step by Controller.run the elasticity
\* matrix passed is the one of the mesh of the fracture passed: C has been
\* halved as many times as the mesh of the fracture has been coarsened, also
\* when the fracture was restored from the buffer after a remeshing.
C29_MatrixOfTheMeshAtEveryCall ==
    pc = "advance" => C = HalvedTimes(Fr.mesh)

\* ------------------------------------------- restarts from the check points
\* a run whose prefactor of the start, 0.2, stays above 0.1 over three
\* restarts in a row (0.16, 0.128, 0.1024)
InitRestart ==
    InitWith({"viscous", "mechLoading"}, {FALSE}, {24}, MaxStepsRun,
             {FinalTime}, {solTimeSeries}, {200}, "run")
SpecRestart == InitRestart /\ [][NextRun]_vars

\* a restart puts back a fracture that is not later than the one the failed
\* step was called with
RestoredNotLater ==
    pc = "handle" /\ pc' = "run" /\ status \notin {1, 12} =>
        Fr'.time <= Fr.time

\* C30: the state restored by a rollback is never later than the state whose
\* step has just failed: its time is at most the time of the fracture passed
\* to the failed call of advance_time_step, also over several failed steps
\* in a row.
C30_RollbackNeverForward == [][RestoredNotLater]_vars
====
